---- MODULE Spec2Model ----
(***************************************************************************)
(* Model of the trend and seasonality estimator of InsightGridAI           *)
(* (src/infrastructure/lambda/data-processor/simple_ml.py) and of the two  *)
(* forecast functions built on it.                                         *)
(*                                                                         *)
(* Numbers.  A Python float is modelled as a pair <<n, d>>:                *)
(*   d > 0   the finite value n/d, kept in lowest terms;                   *)
(*   d = 0   a non-finite float: <<1,0>> is inf, <<-1,0>> is -inf and      *)
(*           <<0,0>> is nan;                                               *)
(*   d = -1  no value at all: the expression raised (ZeroDivisionError,    *)
(*           IndexError), and every operation on it raises in turn.        *)
(* A triple <<n, d, e>> (d > 0, n # 0, e = 1 or -1) is the finite value     *)
(* n/d * 2^(600 e): a float so large, or so small, that it absorbs, or is  *)
(* absorbed by, every pair in a sum, and whose product with another of     *)
(* its kind leaves the range of a double (inf, resp. 0.0).                 *)
(* Finite arithmetic is exact: the rounding of IEEE doubles is not         *)
(* modelled.  The series drawn by Init hold integers, on which the sums    *)
(* and products of the code are exact in doubles as well.  math.sqrt and   *)
(* math.sin are computed to a stated precision (sqrt, sin_month).          *)
(***************************************************************************)
EXTENDS Integers, Sequences, FiniteSets, TLC

\* ------------------------------------------------------------- bounds
\* Longest data_series handed to _calculate_trend / _detect_seasonality.
MaxLen == 3
\* The finite values of a series are the integers -MaxVal .. MaxVal.
MaxVal == 2
\* Most records handed to a forecast (logistics_data, sales_data).
MaxRows == 3
\* Longest explicit time_horizon_months (the default of 12 is drawn as well).
MaxHorizon == 2

\* ------------------------------------------------------------ numbers
Abs(n) == IF n < 0 THEN -n ELSE n

RECURSIVE Gcd(_, _)
Gcd(a, b) == IF b = 0 THEN a ELSE Gcd(b, a % b)

\* The finite float n/d (d # 0), in lowest terms with a positive denominator.
Rat(n, d) ==
    LET g == Gcd(Abs(n), Abs(d))
        s == IF d < 0 THEN -1 ELSE 1
    IN  << (s * n) \div g, (s * d) \div g >>

Int2F(i) == << i, 1 >>
NaN == << 0, 0 >>
Inf == << 1, 0 >>
ZeroDivisionError == << 0, -1 >>
IndexError == << 1, -1 >>
OverflowError == << 2, -1 >>

IsRaised(a) == a[2] = -1
\* not (math.isnan(v) or math.isinf(v))
IsFinite(a) == a[2] > 0

\* The e of a triple, 0 for a pair.
Exp(a) == IF Len(a) = 3 THEN a[3] ELSE 0
\* The pair <<n, d>> of a float.
Mant(a) == << a[1], a[2] >>
\* The float m * 2^(600 e) of a pair m: beyond the range of a double it is
\* inf of the sign of m, below it 0.0.
Scaled(m, e) ==
    IF m[2] <= 0 \/ m[1] = 0 \/ e = 0 THEN m
    ELSE IF e >= 2 THEN << IF m[1] > 0 THEN 1 ELSE -1, 0 >>
    ELSE IF e <= -2 THEN << 0, 1 >>
    ELSE << m[1], m[2], e >>
\* A float beyond 2^600: n * 2^600.
Huge(n) == << n, 1, 1 >>

RAdd(a, b) ==
    IF IsRaised(a) THEN a ELSE IF IsRaised(b) THEN b
    ELSE IF Exp(a) = Exp(b)
    THEN LET g == Gcd(a[2], b[2])
         IN  Scaled(Rat(a[1] * (b[2] \div g) + b[1] * (a[2] \div g), (a[2] \div g) * b[2]),
                    Exp(a))
    ELSE IF a[1] = 0 THEN b
    ELSE IF b[1] = 0 THEN a
    ELSE IF Exp(a) > Exp(b) THEN a ELSE b
RNeg(a) == IF IsRaised(a) THEN a ELSE [a EXCEPT ![1] = -a[1]]
RSub(a, b) == RAdd(a, RNeg(b))
RMul(a, b) ==
    IF IsRaised(a) THEN a ELSE IF IsRaised(b) THEN b
    ELSE LET g1 == Gcd(Abs(a[1]), b[2])
             g2 == Gcd(Abs(b[1]), a[2])
         IN  Scaled(Rat((a[1] \div g1) * (b[1] \div g2), (a[2] \div g2) * (b[2] \div g1)),
                    Exp(a) + Exp(b))
\* a / b: dividing by zero raises ZeroDivisionError.
RDiv(a, b) ==
    IF IsRaised(a) THEN a ELSE IF IsRaised(b) THEN b
    ELSE IF b[1] = 0 THEN ZeroDivisionError
    ELSE RMul(a, Scaled(Rat(b[2], b[1]), -Exp(b)))
RSq(a) == RMul(a, a)
\* a ** 2 of a float: a result beyond the range of a double raises
\* OverflowError (one below it is 0.0).
pow2(a) ==
    IF IsRaised(a) THEN a
    ELSE IF a[1] # 0 /\ Exp(a) >= 1 THEN OverflowError
    ELSE RMul(a, a)
RLt(a, b) ==
    IF Exp(a) = Exp(b) THEN a[1] * b[2] < b[1] * a[2] ELSE RSub(a, b)[1] < 0
RLe(a, b) ==
    IF Exp(a) = Exp(b) THEN a[1] * b[2] <= b[1] * a[2] ELSE RSub(a, b)[1] <= 0
RGt(a, b) == RLt(b, a)
RGe(a, b) == RLe(b, a)
RMax(a, b) == IF IsRaised(a) THEN a ELSE IF IsRaised(b) THEN b ELSE IF RLt(a, b) THEN b ELSE a
RMin(a, b) == IF IsRaised(a) THEN a ELSE IF IsRaised(b) THEN b ELSE IF RLt(b, a) THEN b ELSE a
Zero == Int2F(0)
One == Int2F(1)

RECURSIVE SumSeq(_)
\* sum(s) of a sequence of floats
SumSeq(s) == IF Len(s) = 0 THEN Zero ELSE RAdd(s[1], SumSeq(Tail(s)))

RECURSIVE SeqsUpTo(_, _)
\* All sequences over S of length 0..n.
SeqsUpTo(S, n) ==
    IF n = 0 THEN { << >> }
    ELSE LET shorter == SeqsUpTo(S, n - 1)
         IN  shorter \cup { Append(s, v) : s \in { t \in shorter : Len(t) = n - 1 }, v \in S }

RECURSIVE CeilSqrtIn(_, _, _)
\* The least k in lo..hi with k * k >= x (bisection; hi * hi >= x).
CeilSqrtIn(lo, hi, x) ==
    IF lo >= hi THEN hi
    ELSE LET mid == (lo + hi) \div 2
         IN  IF mid * mid >= x THEN CeilSqrtIn(lo, mid, x) ELSE CeilSqrtIn(mid + 1, hi, x)

\* math.sqrt(a) for a finite a >= 0, to a precision of 1/20: the least
\* multiple of 1/20 whose square is >= a.  (Rounded up, so that sqrt(a) > t
\* is decided exactly for every threshold t that is a multiple of 1/20.)
sqrt(a) ==
    IF IsRaised(a) THEN a
    ELSE LET x == (a[1] * 400 + a[2] - 1) \div a[2]
         IN  Rat(CeilSqrtIn(0, IF x < 40000 THEN x ELSE 40000, x), 20)

\* ----------------------------------------------------- the estimator
\* _calculate_mean(data)
calculate_mean(data) ==
    IF Len(data) > 0 THEN RDiv(SumSeq(data), Int2F(Len(data))) ELSE Zero

\* Mutant of calculate_std: the population deviation, divided by n.
calculate_std_population(data) ==
    IF Len(data) < 2 THEN Zero
    ELSE LET mean == calculate_mean(data)
             variance == RDiv(SumSeq([i \in 1..Len(data) |-> pow2(RSub(data[i], mean))]),
                              Int2F(Len(data)))
         IN  sqrt(variance)

\* _calculate_std(data): Bessel-corrected standard deviation
calculate_std(data) ==
    IF Len(data) < 2 THEN Zero
    ELSE LET mean == calculate_mean(data)
             variance == RDiv(SumSeq([i \in 1..Len(data) |-> pow2(RSub(data[i], mean))]),
                              Int2F(Len(data) - 1))
         IN  sqrt(variance)

\* Mutant of x_indices: the indices counted from 1, as in list(range(1, n + 1)).
x_indices_from_one(n) == [i \in 1..n |-> i]

\* x = list(range(n))
x_indices(n) == [i \in 1..n |-> i - 1]

\* Mutant of valid_pairs: the index kept in place of the value, (xi, xi).
valid_pairs_index_for_value(x, y) ==
    LET pairs == [i \in 1..Len(y) |-> << x[i], y[i] >>]
        valid(p) == IsFinite(p[2])
        kept == SelectSeq(pairs, valid)
    IN  [i \in 1..Len(kept) |-> << kept[i][1], Int2F(kept[i][1]) >>]

\* [(xi, yi) for xi, yi in zip(x, y) if not (math.isnan(yi) or math.isinf(yi))]
valid_pairs(x, y) ==
    LET pairs == [i \in 1..Len(y) |-> << x[i], y[i] >>]
        valid(p) == IsFinite(p[2])
    IN  SelectSeq(pairs, valid)

RECURSIVE SumInts(_)
SumInts(s) == IF Len(s) = 0 THEN 0 ELSE s[1] + SumInts(Tail(s))

\* Mutant of denominator: the factor n forgotten.
denominator_without_n(n, sum_x, sum_x2) == sum_x2 - sum_x * sum_x

\* denominator = (n * sum_x2 - sum_x ** 2)
denominator(n, sum_x, sum_x2) == n * sum_x2 - sum_x * sum_x

\* Mutant of r_squared_of: a series without variance scored as a perfect fit.
r_squared_one_without_variance(ss_res, ss_total) ==
    LET r == IF RGt(ss_total, Zero) THEN RSub(One, RDiv(ss_res, ss_total)) ELSE One
    IN  RMax(Zero, RMin(One, r))

\* Mutant of r_squared_of: clamped as a percentage, to [0, 100].
r_squared_as_percent(ss_res, ss_total) ==
    LET r == IF RGt(ss_total, Zero) THEN RSub(One, RDiv(ss_res, ss_total)) ELSE Zero
    IN  RMax(Zero, RMin(Int2F(100), RMul(Int2F(100), r)))

\* r_squared = 1 - (ss_res / ss_total) if ss_total > 0 else 0
\* r_squared = max(0, min(1, r_squared))
r_squared_of(ss_res, ss_total) ==
    LET r == IF RGt(ss_total, Zero) THEN RSub(One, RDiv(ss_res, ss_total)) ELSE Zero
    IN  RMax(Zero, RMin(One, r))

\* _calculate_trend(data_series), with the line of the return statement taken.
trend_fit(data_series) ==
    IF Len(data_series) < 2
    THEN [slope |-> Zero,
          intercept |-> IF Len(data_series) > 0 THEN data_series[1] ELSE Zero,
          r_squared |-> Zero, line |-> 27]
    ELSE
    LET vp == valid_pairs(x_indices(Len(data_series)), data_series)
    IN  IF Len(vp) < 2
        THEN [slope |-> Zero,
              intercept |-> IF Len(vp) > 0 THEN vp[1][2] ELSE Zero,
              r_squared |-> Zero, line |-> 36]
        ELSE
        LET n == Len(vp)
            x == [i \in 1..n |-> vp[i][1]]
            y == [i \in 1..n |-> vp[i][2]]
            sum_x == SumInts(x)
            sum_y == SumSeq(y)
            sum_xy == SumSeq([i \in 1..n |-> RMul(Int2F(x[i]), y[i])])
            sum_x2 == SumInts([i \in 1..n |-> x[i] * x[i]])
            d == denominator(n, sum_x, sum_x2)
        IN  IF d = 0
            THEN [slope |-> Zero, intercept |-> calculate_mean(y),
                  r_squared |-> Zero, line |-> 50]
            ELSE
            LET m == RDiv(RSub(RMul(Int2F(n), sum_xy), RMul(Int2F(sum_x), sum_y)), Int2F(d))
                b == RDiv(RSub(sum_y, RMul(m, Int2F(sum_x))), Int2F(n))
                y_mean == calculate_mean(y)
                ss_total == SumSeq([i \in 1..n |-> pow2(RSub(y[i], y_mean))])
                y_pred == [i \in 1..n |-> RAdd(RMul(m, Int2F(x[i])), b)]
                ss_res == SumSeq([i \in 1..n |-> pow2(RSub(y[i], y_pred[i]))])
            IN  [slope |-> m, intercept |-> b,
                 r_squared |-> IF IsRaised(ss_total) THEN ss_total
                               ELSE IF IsRaised(ss_res) THEN ss_res
                               ELSE r_squared_of(ss_res, ss_total),
                 line |-> 64]

\* The dictionary _calculate_trend returns.
calculate_trend(data_series) ==
    LET t == trend_fit(data_series)
    IN  [slope |-> t.slope, intercept |-> t.intercept, r_squared |-> t.r_squared]

\* has_seasonality = variation > 0.15
seasonality_threshold == Rat(15, 100)

\* Mutant of seasonality_signal: the mean == 0 guard forgotten.
seasonality_signal_no_mean_guard(data_series) ==
    LET none(l) == [has_seasonality |-> FALSE, variation |-> Zero, factor |-> One, line |-> l]
        data == SelectSeq(data_series, IsFinite)
        variation == RDiv(calculate_std(data), calculate_mean(data))
    IN  IF Len(data_series) < 3 THEN none(76)
        ELSE IF Len(data) < 3 THEN none(81)
        ELSE [has_seasonality |-> (~IsRaised(variation)) /\ RGt(variation, seasonality_threshold),
              variation |-> variation,
              factor |-> RAdd(One, RMul(variation, Rat(1, 2))),
              line |-> 92]

\* _detect_seasonality(data_series), with the line of the return statement taken.
seasonality_signal(data_series) ==
    LET none(l) == [has_seasonality |-> FALSE, variation |-> Zero, factor |-> One, line |-> l]
    IN  IF Len(data_series) < 3 THEN none(76)
        ELSE
        LET data == SelectSeq(data_series, IsFinite)
        IN  IF Len(data) < 3 THEN none(81)
            ELSE
            LET mean == calculate_mean(data)
            IN  IF mean = Zero THEN none(85)
                ELSE
                LET std == calculate_std(data)
                    variation == RDiv(std, mean)
                IN  [has_seasonality |-> RGt(variation, seasonality_threshold),
                     variation |-> variation,
                     factor |-> RAdd(One, RMul(variation, Rat(1, 2))),
                     line |-> 92]

\* The dictionary _detect_seasonality returns.
detect_seasonality(data_series) ==
    LET s == seasonality_signal(data_series)
    IN  [has_seasonality |-> s.has_seasonality, variation |-> s.variation, factor |-> s.factor]

\* ------------------------------------------------------ the forecasts
\* d.get(k, default)
Get(d, k, default) == IF k \in DOMAIN d THEN d[k] ELSE default

\* math.sin(2 * math.pi * month / 12), to 2 decimals.
sin_month(month) ==
    LET k == month % 12
    IN  CASE k \in {0, 6} -> Zero
          [] k \in {1, 5} -> Rat(1, 2)
          [] k \in {2, 4} -> Rat(87, 100)
          [] k = 3 -> One
          [] k \in {7, 11} -> Rat(-1, 2)
          [] k \in {8, 10} -> Rat(-87, 100)
          [] k = 9 -> Int2F(-1)

\* The integer nearest to n/d (d > 0), a tie going to the even one.
HalfEven(n, d) ==
    LET f == n \div d
        r == n - f * d
    IN  IF 2 * r < d THEN f
        ELSE IF 2 * r > d THEN f + 1
        ELSE IF f % 2 = 0 THEN f ELSE f + 1

\* a rounded to a multiple of 1/scale, a tie going to the even one.
RoundTo(a, scale) ==
    LET whole == a[1] \div a[2]
        rest == a[1] - whole * a[2]
    IN  Rat(whole * scale + HalfEven(rest * scale, a[2]), scale)

\* round(a, ndigits): a float beyond 2^600 is its own rounding, one below
\* 2^-600 rounds to 0.0.
round(a, scale) ==
    IF IsRaised(a) \/ Exp(a) = 1 THEN a
    ELSE IF Exp(a) = -1 THEN << 0, 1 >>
    ELSE RoundTo(a, scale)
\* round(a, 2)
round2(a) == round(a, 100)
\* round(a, 1)
round1(a) == round(a, 10)
\* int(a): truncation towards zero
int(a) == IF a[1] >= 0 THEN a[1] \div a[2] ELSE -((-a[1]) \div a[2])

\* f'Month {i}'
month_label(i) == "Month " \o ToString(i)

\* float(row.get('fuel_used_l', 0)) * float(row.get('fuel_price_per_l', 0))
\* (the amounts of a row are floats already)
fuel_cost(row) == RMul(Get(row, "fuel_used_l", Zero), Get(row, "fuel_price_per_l", Zero))

\* historical_costs, as extracted from logistics_data
historical_costs(logistics_data) ==
    LET kept(row) == /\ "fuel_used_l" \in DOMAIN row
                     /\ "fuel_price_per_l" \in DOMAIN row
                     /\ RGt(fuel_cost(row), Zero)
        rows == SelectSeq(logistics_data, kept)
    IN  [i \in 1..Len(rows) |-> fuel_cost(rows[i])]

\* historical_revenue, as extracted from sales_data
historical_revenue(sales_data) ==
    LET kept(row) == "revenue" \in DOMAIN row /\ RGt(row.revenue, Zero)
        rows == SelectSeq(sales_data, kept)
    IN  [i \in 1..Len(rows) |-> rows[i].revenue]

Percent(p) == Rat(p, 100)

\* Mutant of fallback_avg_cost: _calculate_mean in place of the inline mean,
\* which is 0 of an empty series.
fallback_avg_cost_by_calculate_mean(hist) == calculate_mean(hist)

\* sum(historical_costs) / len(historical_costs) if historical_costs else 1000
fallback_avg_cost(hist) ==
    IF Len(hist) > 0 THEN RDiv(SumSeq(hist), Int2F(Len(hist))) ELSE Int2F(1000)

\* The return of predict_fuel_price_with_ml when len(historical_costs) < 2.
fuel_insufficient(parameters, logistics_data) ==
    LET fuel_increase_percent == Get(parameters, "fuel_increase_percent", 10)
        time_horizon_months == Get(parameters, "time_horizon_months", 12)
        fuel_cost_ratio == Percent(Get(parameters, "fuel_cost_ratio", 30))
        hist == historical_costs(logistics_data)
        avg_cost == fallback_avg_cost(hist)
        monthly_impact == RMul(RMul(RMul(avg_cost, Int2F(Len(logistics_data))), fuel_cost_ratio),
                               Percent(fuel_increase_percent))
    IN  [scenario |-> "Fuel Price Increase (Insufficient Data for ML)",
         fuel_increase_percent |-> fuel_increase_percent,
         time_horizon_months |-> time_horizon_months,
         total_cost_impact |-> RMul(monthly_impact, Int2F(time_horizon_months)),
         projected_cost_increase |-> monthly_impact,
         monthly_breakdown |->
            [i \in 1..time_horizon_months |->
                [month |-> month_label(i),
                 monthly_cost_increase |-> round2(monthly_impact),
                 cumulative_cost_increase |-> round2(RMul(monthly_impact, Int2F(i)))]],
         recommendations |-> << "Insufficient historical data for ML predictions" >>]

\* Mutant of fallback_avg_revenue: _calculate_mean in place of the inline
\* mean, which is 0 of an empty series.
fallback_avg_revenue_by_calculate_mean(hist) == calculate_mean(hist)

\* sum(historical_revenue) / len(historical_revenue) if historical_revenue else 10000
fallback_avg_revenue(hist) ==
    IF Len(hist) > 0 THEN RDiv(SumSeq(hist), Int2F(Len(hist))) ELSE Int2F(10000)

\* The return of predict_demand_with_ml when len(historical_revenue) < 2.
demand_insufficient(parameters, sales_data) ==
    LET demand_increase_percent == Get(parameters, "demand_increase_percent", 15)
        time_horizon_months == Get(parameters, "time_horizon_months", 12)
        hist == historical_revenue(sales_data)
        avg_revenue == fallback_avg_revenue(hist)
        monthly_increase == RMul(RMul(avg_revenue, Int2F(Len(sales_data))),
                                 Percent(demand_increase_percent))
    IN  [scenario |-> "Demand Forecast (Insufficient Data for ML)",
         demand_increase_percent |-> demand_increase_percent,
         time_horizon_months |-> time_horizon_months,
         current_monthly_revenue |-> RMul(avg_revenue, Int2F(Len(sales_data))),
         projected_revenue_increase |-> monthly_increase,
         total_revenue_increase |-> RMul(monthly_increase, Int2F(time_horizon_months)),
         monthly_breakdown |-> << >>,
         capacity_requirements |-> << "Insufficient historical data for ML predictions" >>]

\* Mutant of shipment_count: the records that passed the filter.
shipment_count_of_valid_costs(logistics_data) == Len(historical_costs(logistics_data))

\* shipment_count = len(logistics_data)
shipment_count(logistics_data) == Len(logistics_data)

\* order_count = len(sales_data)
order_count(sales_data) == Len(sales_data)

\* Mutant of trend_is_significant: the 0.5 of the recommendations.
trend_is_significant_above_half(t) == RGt(t.r_squared, Rat(1, 2))

\* trend['r_squared'] > 0.3
trend_is_significant(t) == RGt(t.r_squared, Rat(3, 10))

\* Mutant of fuel_predicted_impact: the trend adjustment is slope * month, as
\* in the demand variant, without the ratio and the percentage.
fuel_predicted_impact_unscaled_trend(mon, base_monthly_impact, t, s, fuel_cost_ratio, fuel_increase_percent) ==
    LET with_trend ==
            IF trend_is_significant(t)
            THEN RAdd(base_monthly_impact, RMul(t.slope, Int2F(mon)))
            ELSE base_monthly_impact
    IN  IF s.has_seasonality
        THEN RAdd(with_trend,
                  RMul(RMul(RMul(with_trend, s.variation), sin_month(mon)), Rat(1, 2)))
        ELSE with_trend

\* predicted_impact of one month of predict_fuel_price_with_ml: the base, the
\* trend adjustment and the seasonality adjustment.
fuel_predicted_impact(mon, base_monthly_impact, t, s, fuel_cost_ratio, fuel_increase_percent) ==
    LET with_trend ==
            IF trend_is_significant(t)
            THEN RAdd(base_monthly_impact,
                      RMul(RMul(RMul(t.slope, Int2F(mon)), fuel_cost_ratio),
                           Percent(fuel_increase_percent)))
            ELSE base_monthly_impact
    IN  IF s.has_seasonality
        THEN RAdd(with_trend,
                  RMul(RMul(RMul(with_trend, s.variation), sin_month(mon)), Rat(1, 2)))
        ELSE with_trend

\* Mutant of add_impact: an assignment in place of the +=.
add_impact_overwrites(cumulative, predicted_impact) == predicted_impact

\* cumulative_cost += predicted_impact; total_impact += predicted_impact
add_impact(cumulative, predicted_impact) == RAdd(cumulative, predicted_impact)

\* The monthly_breakdown entry of one month of predict_fuel_price_with_ml.
fuel_entry(mon, predicted_impact, cumulative) ==
    LET confidence_range == RMul(predicted_impact, Rat(20, 100))
        optimistic == RMax(Zero, RSub(predicted_impact, confidence_range))
        pessimistic == RAdd(predicted_impact, confidence_range)
    IN  [month |-> month_label(mon),
         monthly_cost_increase |-> round2(predicted_impact),
         cumulative_cost_increase |-> round2(cumulative),
         optimistic_scenario |-> round2(optimistic),
         pessimistic_scenario |-> round2(pessimistic)]

\* Mutant of demand_projected_revenue: the whole base from the first month on,
\* as in the fuel variant, in place of the ramp.
demand_projected_revenue_flat(mon, time_horizon_months, current_monthly_revenue, base_monthly_increase, t, s) ==
    LET flat == RAdd(current_monthly_revenue, base_monthly_increase)
        with_trend == IF trend_is_significant(t)
                      THEN RAdd(flat, RMul(t.slope, Int2F(mon)))
                      ELSE flat
    IN  IF s.has_seasonality
        THEN RAdd(with_trend,
                  RMul(RMul(RMul(with_trend, s.variation), sin_month(mon)), Rat(3, 10)))
        ELSE with_trend

\* projected_revenue of one month of predict_demand_with_ml.
demand_projected_revenue(mon, time_horizon_months, current_monthly_revenue, base_monthly_increase, t, s) ==
    LET ramp == RAdd(current_monthly_revenue,
                     RMul(base_monthly_increase, RDiv(Int2F(mon), Int2F(time_horizon_months))))
        with_trend == IF trend_is_significant(t)
                      THEN RAdd(ramp, RMul(t.slope, Int2F(mon)))
                      ELSE ramp
    IN  IF s.has_seasonality
        THEN RAdd(with_trend,
                  RMul(RMul(RMul(with_trend, s.variation), sin_month(mon)), Rat(3, 10)))
        ELSE with_trend

\* The monthly_breakdown entry of one month of predict_demand_with_ml.
demand_entry(mon, current_monthly_revenue, projected_revenue) ==
    [month |-> month_label(mon),
     current_revenue |-> round2(current_monthly_revenue),
     projected_revenue |-> round2(projected_revenue),
     revenue_increase |-> round2(RSub(projected_revenue, current_monthly_revenue))]

\* Mutant of impact_recommendation: the threshold itself counted as high.
impact_recommendation_high_from_15(fuel_increase_percent) ==
    IF fuel_increase_percent >= 15
    THEN << [type |-> "warning", title |-> "High Impact Scenario"] >>
    ELSE << [type |-> "action", title |-> "Moderate Impact"] >>

\* The recommendation that fuel_increase_percent decides.
impact_recommendation(fuel_increase_percent) ==
    IF fuel_increase_percent > 15
    THEN << [type |-> "warning", title |-> "High Impact Scenario"] >>
    ELSE << [type |-> "action", title |-> "Moderate Impact"] >>

\* recommendations of predict_fuel_price_with_ml (type and title of each).
fuel_recommendations(t, s, fuel_increase_percent) ==
    (IF RGt(t.slope, Zero) /\ RGt(t.r_squared, Rat(1, 2))
     THEN << [type |-> "warning", title |-> "Upward Cost Trend Detected"] >>
     ELSE IF RLt(t.slope, Zero)
     THEN << [type |-> "info", title |-> "Favorable Cost Trend"] >>
     ELSE << >>)
    \o (IF s.has_seasonality
        THEN << [type |-> "info", title |-> "Seasonal Pattern Detected"] >>
        ELSE << >>)
    \o impact_recommendation(fuel_increase_percent)

\* Mutant of trend_direction: the slope compared without the r_squared gate.
trend_direction_ungated(t, avg_cost) ==
    IF RGt(t.slope, RMul(avg_cost, Rat(1, 100))) THEN "rising"
    ELSE IF RLt(t.slope, RMul(RNeg(avg_cost), Rat(1, 100))) THEN "falling"
    ELSE "stable"

\* trend_direction of predict_fuel_price_with_ml
trend_direction(t, avg_cost) ==
    IF trend_is_significant(t)
    THEN IF RGt(t.slope, RMul(avg_cost, Rat(1, 100))) THEN "rising"
         ELSE IF RLt(t.slope, RMul(RNeg(avg_cost), Rat(1, 100))) THEN "falling"
         ELSE "stable"
    ELSE "stable"

\* model_info of predict_fuel_price_with_ml
fuel_model_info(t, s, hist) ==
    [trend_detected |-> trend_is_significant(t),
     seasonality_detected |-> s.has_seasonality,
     confidence |-> int(RMul(t.r_squared, Int2F(100))),
     data_points |-> Len(hist),
     trend_direction |-> trend_direction(t, calculate_mean(hist)),
     seasonal_variation |-> round1(RMul(s.variation, Int2F(100)))]

\* model_info of predict_demand_with_ml
demand_model_info(t, s, hist) ==
    [trend_detected |-> trend_is_significant(t),
     seasonality_detected |-> s.has_seasonality,
     confidence |-> int(RMul(t.r_squared, Int2F(100))),
     data_points |-> Len(hist)]

\* capacity_requirements of predict_demand_with_ml (the rule of each entry).
demand_capacity_requirements(t, s) ==
    << "Increase inventory", "Consider hiring additional staff" >>
    \o (IF s.has_seasonality THEN << "Plan for seasonal fluctuations" >> ELSE << >>)
    \o (IF RGt(t.slope, Zero) /\ RGt(t.r_squared, Rat(1, 2))
        THEN << "Historical growth trend detected" >>
        ELSE << >>)

\* The dictionary predict_fuel_price_with_ml returns after its loop.
fuel_result(parameters, monthly_cost, base_monthly_impact, total_impact, monthly_breakdown, t, s, hist) ==
    [scenario |-> "ML-Enhanced Fuel Price Prediction",
     model_type |-> "Linear Regression + Seasonality Detection (Pure Python)",
     fuel_increase_percent |-> Get(parameters, "fuel_increase_percent", 10),
     time_horizon_months |-> Get(parameters, "time_horizon_months", 12),
     current_monthly_cost |-> monthly_cost,
     projected_cost_increase |-> base_monthly_impact,
     total_cost_impact |-> total_impact,
     monthly_breakdown |-> monthly_breakdown,
     model_info |-> fuel_model_info(t, s, hist),
     recommendations |->
         fuel_recommendations(t, s, Get(parameters, "fuel_increase_percent", 10))]

\* The dictionary predict_demand_with_ml returns after its loop.
demand_result(parameters, current_monthly_revenue, base_monthly_increase, total_increase, monthly_breakdown, t, s, hist) ==
    [scenario |-> "ML-Enhanced Demand Forecast",
     model_type |-> "Trend Analysis + Seasonality (Pure Python)",
     demand_increase_percent |-> Get(parameters, "demand_increase_percent", 15),
     time_horizon_months |-> Get(parameters, "time_horizon_months", 12),
     current_monthly_revenue |-> current_monthly_revenue,
     projected_monthly_revenue |-> RAdd(current_monthly_revenue, base_monthly_increase),
     projected_revenue_increase |-> base_monthly_increase,
     total_revenue_increase |-> total_increase,
     monthly_breakdown |-> monthly_breakdown,
     model_info |-> demand_model_info(t, s, hist),
     capacity_requirements |-> demand_capacity_requirements(t, s)]

\* ------------------------------------------ the forecasts as functions
\* An exception leaves _calculate_trend or _detect_seasonality on hist.
FitRaises(hist) ==
    \/ \E t \in { trend_fit(hist) } :
          IsRaised(t.slope) \/ IsRaised(t.intercept) \/ IsRaised(t.r_squared)
    \/ IsRaised(seasonality_signal(hist).variation)

RECURSIVE fuel_months(_, _, _, _, _, _, _, _)
\* The loop of predict_fuel_price_with_ml from month mon on; acc holds
\* cumulative_cost, total_impact and monthly_breakdown.
fuel_months(mon, time_horizon_months, base_monthly_impact, t, s, fuel_cost_ratio, fuel_increase_percent, acc) ==
    IF mon > time_horizon_months THEN acc
    ELSE LET predicted_impact ==
                 fuel_predicted_impact(mon, base_monthly_impact, t, s, fuel_cost_ratio,
                                       fuel_increase_percent)
             cumulative == add_impact(acc.cumulative_cost, predicted_impact)
         IN  fuel_months(mon + 1, time_horizon_months, base_monthly_impact, t, s,
                         fuel_cost_ratio, fuel_increase_percent,
                         [cumulative_cost |-> cumulative,
                          total |-> add_impact(acc.total, predicted_impact),
                          monthly_breakdown |->
                              Append(acc.monthly_breakdown,
                                     fuel_entry(mon, predicted_impact, cumulative))])

RECURSIVE demand_months(_, _, _, _, _, _, _)
\* The loop of predict_demand_with_ml from month mon on; acc holds
\* total_increase and monthly_breakdown.
demand_months(mon, time_horizon_months, current_monthly_revenue, base_monthly_increase, t, s, acc) ==
    IF mon > time_horizon_months THEN acc
    ELSE LET projected_revenue ==
                 demand_projected_revenue(mon, time_horizon_months, current_monthly_revenue,
                                          base_monthly_increase, t, s)
         IN  demand_months(mon + 1, time_horizon_months, current_monthly_revenue,
                           base_monthly_increase, t, s,
                           [total |-> add_impact(acc.total,
                                                 RSub(projected_revenue, current_monthly_revenue)),
                            monthly_breakdown |->
                                Append(acc.monthly_breakdown,
                                       demand_entry(mon, current_monthly_revenue,
                                                    projected_revenue))])

\* What a call that raised leaves in place of a result.
Raised == [scenario |-> "(raised)"]

\* predict_fuel_price_with_ml(parameters, logistics_data), run from its first
\* line to its return.
predict_fuel_price_with_ml(parameters, logistics_data) ==
    LET hist == historical_costs(logistics_data)
        t == calculate_trend(hist)
        s == detect_seasonality(hist)
        monthly_cost == RMul(calculate_mean(hist), Int2F(shipment_count(logistics_data)))
        fuel_cost_ratio == Percent(Get(parameters, "fuel_cost_ratio", 30))
        fuel_increase_percent == Get(parameters, "fuel_increase_percent", 10)
        base_monthly_impact ==
            RMul(RMul(monthly_cost, fuel_cost_ratio), Percent(fuel_increase_percent))
        done == fuel_months(1, Get(parameters, "time_horizon_months", 12),
                            base_monthly_impact, t, s, fuel_cost_ratio, fuel_increase_percent,
                            [cumulative_cost |-> Zero, total |-> Zero,
                             monthly_breakdown |-> << >>])
    IN  IF Len(hist) < 2 THEN fuel_insufficient(parameters, logistics_data)
        ELSE IF FitRaises(hist) THEN Raised
        ELSE fuel_result(parameters, monthly_cost, base_monthly_impact, done.total,
                         done.monthly_breakdown, t, s, hist)

\* predict_demand_with_ml(parameters, sales_data), run from its first line to
\* its return.
predict_demand_with_ml(parameters, sales_data) ==
    LET hist == historical_revenue(sales_data)
        t == calculate_trend(hist)
        s == detect_seasonality(hist)
        current_monthly_revenue ==
            RMul(calculate_mean(hist), Int2F(order_count(sales_data)))
        base_monthly_increase ==
            RMul(current_monthly_revenue, Percent(Get(parameters, "demand_increase_percent", 15)))
        done == demand_months(1, Get(parameters, "time_horizon_months", 12),
                              current_monthly_revenue, base_monthly_increase, t, s,
                              [total |-> Zero, monthly_breakdown |-> << >>])
    IN  IF Len(hist) < 2 THEN demand_insufficient(parameters, sales_data)
        ELSE IF FitRaises(hist) THEN Raised
        ELSE demand_result(parameters, current_monthly_revenue, base_monthly_increase,
                           done.total, done.monthly_breakdown, t, s, hist)

\* ------------------------------------------------ state of the model
VARIABLES
    data_series,       \* the argument of _calculate_trend / _detect_seasonality
    trend,             \* what _calculate_trend returned
    trend_line,        \* the return statement it left by (0: not called yet)
    seasonality,       \* what _detect_seasonality returned
    seasonality_line,  \* the return statement it left by (0: not called yet)
    pc,                \* where the forecast call stands: "call", "loop", "returned", "raised"
    variant,           \* "fuel": predict_fuel_price_with_ml, "demand": predict_demand_with_ml
    parameters,        \* its first argument
    records,           \* its second argument: logistics_data or sales_data
    historical,        \* historical_costs or historical_revenue
    current,           \* monthly_cost or current_monthly_revenue
    base,              \* base_monthly_impact or base_monthly_increase
    month,             \* the loop variable: the next month to project
    cumulative_cost,   \* cumulative_cost (fuel)
    total,             \* total_impact (fuel) or total_increase (demand)
    impacts,           \* predicted_impact (fuel) or monthly_increase (demand) of each month so far
    monthly_breakdown, \* the list under construction
    result,            \* the dictionary returned
    calls,             \* concurrent invocations: the locals of each
    poller,            \* whose execute_athena_query runs: "data-processor" or "gemini-insights"
    athena_state,      \* the state Athena holds for the query
    status,            \* the state last read by get_query_execution
    attempt,           \* attempt (gemini-insights); stays 0 in data-processor
    poll_pc,           \* "start", "poll", "sleep", "done", "returned", "raised"
    fetched,           \* number of get_query_results calls
    polls,             \* number of get_query_execution calls, up to MaxPolls
    lambda_fn,         \* the Lambda function invoked
    event,             \* its event
    at,                \* where the handler stands
    body,              \* the parsed body
    ML_ENABLED,        \* whether the import of simple_ml succeeded
    outbound,          \* number of Athena queries started or upstream API calls made
    results,           \* results of get_analytics_kpis
    response,          \* the response returned
    business_data,     \* the argument of get_fallback_insights
    insights           \* the list it returned

est_vars == << data_series, trend, trend_line, seasonality, seasonality_line >>
fc_vars == << pc, variant, parameters, records, historical, current, base, month,
              cumulative_cost, total, impacts, monthly_breakdown, result >>
poll_vars == << poller, athena_state, status, attempt, poll_pc, fetched, polls >>
req_vars == << lambda_fn, event, at, body, ML_ENABLED, outbound, results, response >>
ins_vars == << business_data, insights >>
svc_vars == << poll_vars, req_vars, ins_vars >>
ext_vars == << calls, svc_vars >>
vars == << est_vars, fc_vars, ext_vars >>

NoTrend == [slope |-> Zero, intercept |-> Zero, r_squared |-> Zero]
NoSeasonality == [has_seasonality |-> FALSE, variation |-> Zero, factor |-> One]
NoResult == [scenario |-> "(not returned)"]
EmptyDict == [k \in {} |-> 0]

\* The floats a series may hold: small integers, nan and inf.
SeriesValues == { Int2F(i) : i \in -MaxVal..MaxVal } \cup { NaN, Inf }

\* No forecast is running.
ForecastIdle ==
    /\ pc = "idle"
    /\ variant = "none"
    /\ parameters = EmptyDict
    /\ records = << >>
    /\ historical = << >>
    /\ current = Zero
    /\ base = Zero
    /\ month = 0
    /\ cumulative_cost = Zero
    /\ total = Zero
    /\ impacts = << >>
    /\ monthly_breakdown = << >>
    /\ result = NoResult

NoResponse == [statusCode |-> 0]

\* No query is being polled.
PollIdle ==
    /\ poller = "none"
    /\ athena_state = "none"
    /\ status = "unset"
    /\ attempt = 0
    /\ poll_pc = "idle"
    /\ fetched = 0
    /\ polls = 0

\* No Lambda function is invoked.
RequestIdle ==
    /\ lambda_fn = "none"
    /\ event = EmptyDict
    /\ at = "idle"
    /\ body = EmptyDict
    /\ ML_ENABLED = FALSE
    /\ outbound = 0
    /\ results = EmptyDict
    /\ response = NoResponse

\* get_fallback_insights is not called.
InsightsIdle ==
    /\ business_data = EmptyDict
    /\ insights = << >>

\* No concurrent invocation is running.
ExtIdle == calls = << >> /\ PollIdle /\ RequestIdle /\ InsightsIdle

EstimatorInit ==
    /\ ExtIdle
    /\ data_series \in SeqsUpTo(SeriesValues, MaxLen)
    /\ trend = NoTrend
    /\ trend_line = 0
    /\ seasonality = NoSeasonality
    /\ seasonality_line = 0
    /\ ForecastIdle

\* A call of _calculate_trend(data_series).
CalculateTrend ==
    /\ UNCHANGED ext_vars
    /\ trend_line = 0
    /\ trend' = calculate_trend(data_series)
    /\ trend_line' = trend_fit(data_series).line
    /\ UNCHANGED << data_series, seasonality, seasonality_line, fc_vars >>

\* A call of _detect_seasonality(data_series).
DetectSeasonality ==
    /\ UNCHANGED ext_vars
    /\ seasonality_line = 0
    /\ seasonality' = detect_seasonality(data_series)
    /\ seasonality_line' = seasonality_signal(data_series).line
    /\ UNCHANGED << data_series, trend, trend_line, fc_vars >>

EstimatorNext == CalculateTrend \/ DetectSeasonality

SpecEstimator == EstimatorInit /\ [][EstimatorNext]_vars

\* ---------------------------------------- the forecasts, step by step
\* The rows of logistics_data: costs 1, 2 and 4, a row without cost and a row
\* without the 'fuel_price_per_l' field.
FuelRows ==
    { [fuel_used_l |-> Int2F(1), fuel_price_per_l |-> Int2F(1)],
      [fuel_used_l |-> Int2F(2), fuel_price_per_l |-> Int2F(1)],
      [fuel_used_l |-> Int2F(2), fuel_price_per_l |-> Int2F(2)],
      [fuel_used_l |-> Int2F(0), fuel_price_per_l |-> Int2F(3)],
      [fuel_used_l |-> Int2F(3)] }

\* The rows of sales_data: revenues 1, 2 and 4, a row without revenue and a
\* row without the 'revenue' field.
SalesRows ==
    { [revenue |-> Int2F(1)], [revenue |-> Int2F(2)], [revenue |-> Int2F(4)],
      [revenue |-> Int2F(0)], [order_id |-> 7] }

\* The parameters of predict_fuel_price_with_ml: none (every default), or all,
\* the percentage above, at and below the 15 of line 218.
FuelParameters ==
    { EmptyDict } \cup
    { [fuel_increase_percent |-> p, time_horizon_months |-> h, fuel_cost_ratio |-> r] :
        p \in {20, 15, -10}, h \in 1..MaxHorizon, r \in {50} }

\* Rows of very large amounts: costs of 2^600 and 2 * 2^600 (about 4e180 and
\* 8e180), beside a row of cost 1.0.
LargeFuelRows ==
    { [fuel_used_l |-> Huge(1), fuel_price_per_l |-> Int2F(1)],
      [fuel_used_l |-> Huge(2), fuel_price_per_l |-> Int2F(1)],
      [fuel_used_l |-> Int2F(1), fuel_price_per_l |-> Int2F(1)] }
LargeSalesRows == { [revenue |-> Huge(1)], [revenue |-> Huge(2)], [revenue |-> Int2F(1)] }
LargeAmountParameters(percent) ==
    { EmptyDict, (percent :> 20) @@ ("time_horizon_months" :> MaxHorizon) }

\* A call with five shipments of costs 100, 110, 120, 130, 140.
RisingCosts ==
    [i \in 1..5 |-> [fuel_used_l |-> Int2F(90 + 10 * i), fuel_price_per_l |-> Int2F(1)]]
RisingCostsParameters ==
    [fuel_increase_percent |-> 10, time_horizon_months |-> 3, fuel_cost_ratio |-> 30]

\* The parameters of predict_demand_with_ml: none (every default), or all.
DemandParameters ==
    { EmptyDict } \cup
    { [demand_increase_percent |-> p, time_horizon_months |-> h] :
        p \in {20, -10}, h \in 1..MaxHorizon }

ForecastInit ==
    /\ ExtIdle
    /\ data_series = << >>
    /\ trend = NoTrend
    /\ trend_line = 0
    /\ seasonality = NoSeasonality
    /\ seasonality_line = 0
    /\ pc = "call"
    /\ \/ /\ variant = "fuel"
          /\ parameters \in FuelParameters
          /\ records \in SeqsUpTo(FuelRows, MaxRows)
       \/ /\ variant = "fuel"
          /\ parameters = RisingCostsParameters
          /\ records = RisingCosts
       \/ /\ variant = "fuel"
          /\ parameters \in LargeAmountParameters("fuel_increase_percent")
          /\ records \in SeqsUpTo(LargeFuelRows, MaxRows)
       \/ /\ variant = "demand"
          /\ parameters \in LargeAmountParameters("demand_increase_percent")
          /\ records \in SeqsUpTo(LargeSalesRows, MaxRows)
       \/ /\ variant = "demand"
          /\ parameters \in DemandParameters
          /\ records \in SeqsUpTo(SalesRows, MaxRows)
    /\ historical = << >>
    /\ current = Zero
    /\ base = Zero
    /\ month = 0
    /\ cumulative_cost = Zero
    /\ total = Zero
    /\ impacts = << >>
    /\ monthly_breakdown = << >>
    /\ result = NoResult

\* The fitted trend and seasonality of the series hist (lines 144-147, 303-306).
FitSeries(hist) ==
    /\ data_series' = hist
    /\ trend' = calculate_trend(hist)
    /\ trend_line' = trend_fit(hist).line
    /\ seasonality' = detect_seasonality(hist)
    /\ seasonality_line' = seasonality_signal(hist).line

\* predict_fuel_price_with_ml up to its loop: the insufficient-data return, or
\* the fit and the base figures; an exception of the fit leaves the function.
FuelEnter ==
    /\ UNCHANGED ext_vars
    /\ pc = "call" /\ variant = "fuel"
    /\ LET hist == historical_costs(records)
       IN  /\ historical' = hist
           /\ IF Len(hist) < 2
              THEN /\ result' = fuel_insufficient(parameters, records)
                   /\ pc' = "returned"
                   /\ UNCHANGED << est_vars, current, base, month >>
              ELSE IF FitRaises(hist)
              THEN /\ FitSeries(hist)
                   /\ pc' = "raised"
                   /\ UNCHANGED << current, base, month, result >>
              ELSE /\ FitSeries(hist)
                   /\ current' = RMul(calculate_mean(hist), Int2F(shipment_count(records)))
                   /\ base' = RMul(RMul(RMul(calculate_mean(hist), Int2F(shipment_count(records))),
                                        Percent(Get(parameters, "fuel_cost_ratio", 30))),
                                   Percent(Get(parameters, "fuel_increase_percent", 10)))
                   /\ month' = 1
                   /\ pc' = "loop"
                   /\ UNCHANGED result
    /\ UNCHANGED << variant, parameters, records, cumulative_cost, total, impacts,
                    monthly_breakdown >>

\* One iteration of the loop of predict_fuel_price_with_ml.
FuelMonth ==
    /\ UNCHANGED ext_vars
    /\ pc = "loop" /\ variant = "fuel"
    /\ month <= Get(parameters, "time_horizon_months", 12)
    /\ LET predicted_impact ==
               fuel_predicted_impact(month, base, trend, seasonality,
                                     Percent(Get(parameters, "fuel_cost_ratio", 30)),
                                     Get(parameters, "fuel_increase_percent", 10))
       IN  /\ cumulative_cost' = add_impact(cumulative_cost, predicted_impact)
           /\ total' = add_impact(total, predicted_impact)
           /\ impacts' = Append(impacts, predicted_impact)
           /\ monthly_breakdown' =
                  Append(monthly_breakdown,
                         fuel_entry(month, predicted_impact,
                                    add_impact(cumulative_cost, predicted_impact)))
    /\ month' = month + 1
    /\ UNCHANGED << est_vars, pc, variant, parameters, records, historical, current,
                    base, result >>

\* The end of predict_fuel_price_with_ml: recommendations, direction, return.
FuelReturn ==
    /\ UNCHANGED ext_vars
    /\ pc = "loop" /\ variant = "fuel"
    /\ month > Get(parameters, "time_horizon_months", 12)
    /\ result' = fuel_result(parameters, current, base, total, monthly_breakdown, trend,
                             seasonality, historical)
    /\ pc' = "returned"
    /\ UNCHANGED << est_vars, variant, parameters, records, historical, current, base,
                    month, cumulative_cost, total, impacts, monthly_breakdown >>

\* predict_demand_with_ml up to its loop.
DemandEnter ==
    /\ UNCHANGED ext_vars
    /\ pc = "call" /\ variant = "demand"
    /\ LET hist == historical_revenue(records)
       IN  /\ historical' = hist
           /\ IF Len(hist) < 2
              THEN /\ result' = demand_insufficient(parameters, records)
                   /\ pc' = "returned"
                   /\ UNCHANGED << est_vars, current, base, month >>
              ELSE IF FitRaises(hist)
              THEN /\ FitSeries(hist)
                   /\ pc' = "raised"
                   /\ UNCHANGED << current, base, month, result >>
              ELSE /\ FitSeries(hist)
                   /\ current' = RMul(calculate_mean(hist), Int2F(order_count(records)))
                   /\ base' = RMul(RMul(calculate_mean(hist), Int2F(order_count(records))),
                                   Percent(Get(parameters, "demand_increase_percent", 15)))
                   /\ month' = 1
                   /\ pc' = "loop"
                   /\ UNCHANGED result
    /\ UNCHANGED << variant, parameters, records, cumulative_cost, total, impacts,
                    monthly_breakdown >>

\* One iteration of the loop of predict_demand_with_ml.
DemandMonth ==
    /\ UNCHANGED ext_vars
    /\ pc = "loop" /\ variant = "demand"
    /\ month <= Get(parameters, "time_horizon_months", 12)
    /\ LET projected_revenue ==
               demand_projected_revenue(month, Get(parameters, "time_horizon_months", 12),
                                        current, base, trend, seasonality)
           monthly_increase == RSub(projected_revenue, current)
       IN  /\ total' = add_impact(total, monthly_increase)
           /\ impacts' = Append(impacts, monthly_increase)
           /\ monthly_breakdown' =
                  Append(monthly_breakdown, demand_entry(month, current, projected_revenue))
    /\ month' = month + 1
    /\ UNCHANGED << est_vars, pc, variant, parameters, records, historical, current,
                    base, cumulative_cost, result >>

\* The end of predict_demand_with_ml.
DemandReturn ==
    /\ UNCHANGED ext_vars
    /\ pc = "loop" /\ variant = "demand"
    /\ month > Get(parameters, "time_horizon_months", 12)
    /\ result' = demand_result(parameters, current, base, total, monthly_breakdown, trend,
                               seasonality, historical)
    /\ pc' = "returned"
    /\ UNCHANGED << est_vars, variant, parameters, records, historical, current, base,
                    month, cumulative_cost, total, impacts, monthly_breakdown >>

ForecastNext ==
    FuelEnter \/ FuelMonth \/ FuelReturn \/ DemandEnter \/ DemandMonth \/ DemandReturn

SpecForecast == ForecastInit /\ [][ForecastNext]_vars

\* ----------------------------------------- concurrent invocations
\* Two request threads, each inside one call of a forecast function.
Invocations == 1..2

\* The arguments of a concurrent call: a modelled and an insufficient-data
\* call of each function.
ConcurrentArguments ==
    { [variant |-> "fuel",
       parameters |-> [fuel_increase_percent |-> 20, time_horizon_months |-> MaxHorizon,
                       fuel_cost_ratio |-> 50],
       records |-> << [fuel_used_l |-> Int2F(1), fuel_price_per_l |-> Int2F(1)],
                      [fuel_used_l |-> Int2F(2), fuel_price_per_l |-> Int2F(2)],
                      [fuel_used_l |-> Int2F(2), fuel_price_per_l |-> Int2F(1)] >>],
      [variant |-> "fuel",
       parameters |-> EmptyDict,
       records |-> << [fuel_used_l |-> Int2F(2), fuel_price_per_l |-> Int2F(1)] >>],
      [variant |-> "demand",
       parameters |-> [demand_increase_percent |-> 20, time_horizon_months |-> MaxHorizon],
       records |-> << [revenue |-> Int2F(4)], [revenue |-> Int2F(1)], [revenue |-> Int2F(2)] >>],
      [variant |-> "demand",
       parameters |-> [demand_increase_percent |-> -10, time_horizon_months |-> 1],
       records |-> << [revenue |-> Int2F(2)], [revenue |-> Int2F(2)], [order_id |-> 7] >>] }

\* The frame of a call at its first line: its arguments and its locals.
NewCall(arguments) ==
    [pc |-> "call",
     arguments |-> arguments,
     variant |-> arguments.variant,
     parameters |-> arguments.parameters,
     records |-> arguments.records,
     historical |-> << >>,
     trend |-> NoTrend,
     seasonality |-> NoSeasonality,
     current |-> Zero,
     base |-> Zero,
     month |-> 0,
     cumulative_cost |-> Zero,
     total |-> Zero,
     monthly_breakdown |-> << >>,
     result |-> NoResult]

\* Mutant of list_of: monthly_breakdown is one module-level list.
list_of_module(i) == 1

\* monthly_breakdown = [] (lines 156, 314): the list that the name
\* monthly_breakdown denotes in invocation i is the one it allocated.
list_of(i) == i

ConcurrentInit ==
    /\ data_series = << >>
    /\ trend = NoTrend
    /\ trend_line = 0
    /\ seasonality = NoSeasonality
    /\ seasonality_line = 0
    /\ ForecastIdle
    /\ PollIdle
    /\ RequestIdle
    /\ InsightsIdle
    /\ calls \in [Invocations -> { NewCall(a) : a \in ConcurrentArguments }]

\* Invocation i runs from its first line to its loop (or to its return).
CallEnter(i) ==
    /\ calls[i].pc = "call"
    /\ LET c == calls[i]
           fuel == c.variant = "fuel"
           hist == IF fuel THEN historical_costs(c.records) ELSE historical_revenue(c.records)
           count == IF fuel THEN shipment_count(c.records) ELSE order_count(c.records)
           monthly == RMul(calculate_mean(hist), Int2F(count))
           fitted == [c EXCEPT !.historical = hist,
                               !.trend = calculate_trend(hist),
                               !.seasonality = detect_seasonality(hist)]
       IN  IF Len(hist) < 2
           THEN calls' = [calls EXCEPT ![i] =
                            [c EXCEPT !.historical = hist,
                                      !.pc = "returned",
                                      !.result =
                                          IF fuel THEN fuel_insufficient(c.parameters, c.records)
                                          ELSE demand_insufficient(c.parameters, c.records)]]
           ELSE IF FitRaises(hist)
           THEN calls' = [calls EXCEPT ![i] = [fitted EXCEPT !.pc = "raised"]]
           ELSE calls' =
                  [[calls EXCEPT ![i] =
                      [fitted EXCEPT
                          !.current = monthly,
                          !.base =
                              IF fuel
                              THEN RMul(RMul(monthly,
                                             Percent(Get(c.parameters, "fuel_cost_ratio", 30))),
                                        Percent(Get(c.parameters, "fuel_increase_percent", 10)))
                              ELSE RMul(monthly,
                                        Percent(Get(c.parameters, "demand_increase_percent", 15))),
                          !.month = 1,
                          !.pc = "loop"]]
                   EXCEPT ![list_of(i)].monthly_breakdown = << >>]
    /\ UNCHANGED << est_vars, fc_vars, svc_vars >>

\* Invocation i runs one iteration of its loop.
CallMonth(i) ==
    /\ calls[i].pc = "loop"
    /\ calls[i].month <= Get(calls[i].parameters, "time_horizon_months", 12)
    /\ LET c == calls[i]
           list == calls[list_of(i)].monthly_breakdown
           predicted_impact ==
               fuel_predicted_impact(c.month, c.base, c.trend, c.seasonality,
                                     Percent(Get(c.parameters, "fuel_cost_ratio", 30)),
                                     Get(c.parameters, "fuel_increase_percent", 10))
           projected_revenue ==
               demand_projected_revenue(c.month, Get(c.parameters, "time_horizon_months", 12),
                                        c.current, c.base, c.trend, c.seasonality)
       IN  IF c.variant = "fuel"
           THEN calls' =
                  [[calls EXCEPT ![i] =
                      [c EXCEPT !.cumulative_cost = add_impact(c.cumulative_cost, predicted_impact),
                                !.total = add_impact(c.total, predicted_impact),
                                !.month = c.month + 1]]
                   EXCEPT ![list_of(i)].monthly_breakdown =
                      Append(list, fuel_entry(c.month, predicted_impact,
                                              add_impact(c.cumulative_cost, predicted_impact)))]
           ELSE calls' =
                  [[calls EXCEPT ![i] =
                      [c EXCEPT !.total = add_impact(c.total, RSub(projected_revenue, c.current)),
                                !.month = c.month + 1]]
                   EXCEPT ![list_of(i)].monthly_breakdown =
                      Append(list, demand_entry(c.month, c.current, projected_revenue))]
    /\ UNCHANGED << est_vars, fc_vars, svc_vars >>

\* Invocation i leaves its loop and returns.
CallReturn(i) ==
    /\ calls[i].pc = "loop"
    /\ calls[i].month > Get(calls[i].parameters, "time_horizon_months", 12)
    /\ LET c == calls[i]
           list == calls[list_of(i)].monthly_breakdown
       IN  calls' = [calls EXCEPT ![i] =
                       [c EXCEPT !.pc = "returned",
                                 !.result =
                                     IF c.variant = "fuel"
                                     THEN fuel_result(c.parameters, c.current, c.base, c.total,
                                                      list, c.trend, c.seasonality, c.historical)
                                     ELSE demand_result(c.parameters, c.current, c.base, c.total,
                                                        list, c.trend, c.seasonality,
                                                        c.historical)]]
    /\ UNCHANGED << est_vars, fc_vars, svc_vars >>

ConcurrentNext == \E i \in Invocations : CallEnter(i) \/ CallMonth(i) \/ CallReturn(i)

SpecConcurrent == ConcurrentInit /\ [][ConcurrentNext]_vars

\* ------------------------------------------------ execute_athena_query
\* Neither the estimator nor a forecast is running.
CoreIdle ==
    /\ data_series = << >>
    /\ trend = NoTrend
    /\ trend_line = 0
    /\ seasonality = NoSeasonality
    /\ seasonality_line = 0
    /\ ForecastIdle
    /\ calls = << >>


\* max_attempts = 30
max_attempts == 30

\* The polls of a query are counted up to MaxPolls.
MaxPolls == 32

\* Mutant of loop_breaks: only SUCCEEDED ends the loop.
loop_breaks_on_success(state) == state = "SUCCEEDED"

\* if status in ['SUCCEEDED', 'FAILED', 'CANCELLED']: break
loop_breaks(state) == state \in { "SUCCEEDED", "FAILED", "CANCELLED" }

\* Mutant of loop_continues: gemini-insights polls without a limit too.
loop_continues_always(who, n) == TRUE

\* while True (data-processor); while attempt < max_attempts (gemini-insights)
loop_continues(who, n) == who = "data-processor" \/ n < max_attempts

\* The states Athena may move a query to.
AthenaSuccessors(state) ==
    IF state = "QUEUED" THEN { "RUNNING", "FAILED", "CANCELLED" }
    ELSE IF state = "RUNNING" THEN { "SUCCEEDED", "FAILED", "CANCELLED" }
    ELSE {}

PollInit ==
    /\ CoreIdle
    /\ RequestIdle
    /\ InsightsIdle
    /\ poller \in { "data-processor", "gemini-insights" }
    /\ athena_state = "none"
    /\ status = "unset"
    /\ attempt = 0
    /\ poll_pc = "start"
    /\ fetched = 0
    /\ polls = 0

\* athena.start_query_execution(...); attempt = 0
StartQueryExecution ==
    /\ poll_pc = "start"
    /\ athena_state' = "QUEUED"
    /\ poll_pc' = "poll"
    /\ UNCHANGED << poller, status, attempt, fetched, polls >>
    /\ UNCHANGED << est_vars, fc_vars, calls, req_vars, ins_vars >>

\* The loop test holds: athena.get_query_execution(...), then the break test.
GetQueryExecution ==
    /\ poll_pc = "poll"
    /\ loop_continues(poller, attempt)
    /\ status' = athena_state
    /\ polls' = IF polls < MaxPolls THEN polls + 1 ELSE polls
    /\ poll_pc' = IF loop_breaks(athena_state) THEN "done" ELSE "sleep"
    /\ UNCHANGED << poller, athena_state, attempt, fetched >>
    /\ UNCHANGED << est_vars, fc_vars, calls, req_vars, ins_vars >>

\* time.sleep(1); attempt += 1 (gemini-insights only)
Sleep ==
    /\ poll_pc = "sleep"
    /\ attempt' = IF poller = "gemini-insights" THEN attempt + 1 ELSE attempt
    /\ poll_pc' = "poll"
    /\ UNCHANGED << poller, athena_state, status, fetched, polls >>
    /\ UNCHANGED << est_vars, fc_vars, calls, req_vars, ins_vars >>

\* The loop test fails (gemini-insights after max_attempts polls).
LoopExit ==
    /\ poll_pc = "poll"
    /\ ~loop_continues(poller, attempt)
    /\ poll_pc' = "done"
    /\ UNCHANGED << poller, athena_state, status, attempt, fetched, polls >>
    /\ UNCHANGED << est_vars, fc_vars, calls, req_vars, ins_vars >>

\* if status == 'SUCCEEDED': return athena.get_query_results(...)
GetQueryResults ==
    /\ poll_pc = "done"
    /\ status = "SUCCEEDED"
    /\ fetched' = fetched + 1
    /\ poll_pc' = "returned"
    /\ UNCHANGED << poller, athena_state, status, attempt, polls >>
    /\ UNCHANGED << est_vars, fc_vars, calls, req_vars, ins_vars >>

\* else: raise Exception(f"Query failed: ...")
RaiseQueryFailed ==
    /\ poll_pc = "done"
    /\ status # "SUCCEEDED"
    /\ poll_pc' = "raised"
    /\ UNCHANGED << poller, athena_state, status, attempt, fetched, polls >>
    /\ UNCHANGED << est_vars, fc_vars, calls, req_vars, ins_vars >>

\* Athena moves the query on while the function waits for it.
AthenaAdvance ==
    /\ poll_pc \in { "poll", "sleep" }
    /\ athena_state' \in AthenaSuccessors(athena_state)
    /\ UNCHANGED << poller, status, attempt, poll_pc, fetched, polls >>
    /\ UNCHANGED << est_vars, fc_vars, calls, req_vars, ins_vars >>

PollStep ==
    \/ StartQueryExecution
    \/ GetQueryExecution
    \/ Sleep
    \/ LoopExit
    \/ GetQueryResults
    \/ RaiseQueryFailed

PollNext == PollStep \/ AthenaAdvance

\* The function runs on: each of its statements is eventually executed (the
\* calls of the Athena client return). Athena itself owes no progress.
SpecAthena == PollInit /\ [][PollNext]_vars /\ WF_vars(PollStep)

\* ------------------------------------------------ get_fallback_insights
\* The routes, regions and figures a business summary may hold.
MaxRoutes == 2

\* ORDER BY ... DESC: the rows come highest first.
DescendingLists(S) ==
    { s \in SeqsUpTo(S, MaxRoutes) : \A i \in 1..(Len(s) - 1) : RGe(s[i], s[i + 1]) }

\* The mappings with any of the keys 'top_cost_routes' (the avg_cost of
\* each route), 'fuel_price_trend' (its change_pct), 'regional_performance'
\* (the revenue of each region) and 'avg_order_value'.
BusinessData ==
    { [k \in keys |-> chosen[k]] :
        keys \in SUBSET { "top_cost_routes", "fuel_price_trend", "regional_performance",
                          "avg_order_value" },
        chosen \in [top_cost_routes : DescendingLists({ Int2F(-10), Zero, Int2F(10), Int2F(40) }),
                    fuel_price_trend : { Int2F(-10), Zero, Int2F(10) },
                    regional_performance : DescendingLists({ Zero, Int2F(100) }),
                    avg_order_value : { Int2F(50) }] }

Insight(type, title) == [type |-> type, title |-> title]
DataAnalysisRequired == Insight("recommendation", "Data Analysis Required")

\* while len(insights) < 4: insights.append({... 'Data Analysis Required' ...})
RECURSIVE padded(_)
padded(found) == IF Len(found) < 4 THEN padded(Append(found, DataAnalysisRequired)) ELSE found

\* The route rule: the average of the costs, whether the first route lies
\* more than 20% above it, and the percentage its description prints.
route_rule(data) ==
    LET routes == Get(data, "top_cost_routes", << >>)
        avg_cost == RDiv(SumSeq(routes), Int2F(Len(routes)))
        fires == Len(routes) > 0 /\ RGt(routes[1], RMul(avg_cost, Rat(6, 5)))
    IN  [fires |-> fires,
         above |-> IF fires
                   THEN RMul(RSub(RDiv(routes[1], avg_cost), One), Int2F(100))
                   ELSE Zero]

\* The insights of the four rules, in the order of the code.
rule_insights(data) ==
    LET route == IF route_rule(data).fires
                 THEN << Insight("optimization", "Route Cost Anomaly Detected") >>
                 ELSE << >>
        change_pct == Get(data, "fuel_price_trend", Zero)
        fuel == IF "fuel_price_trend" \in DOMAIN data
                   /\ (RGt(change_pct, Int2F(5)) \/ RLt(change_pct, Int2F(-5)))
                THEN IF RGt(change_pct, Zero)
                     THEN << Insight("risk", "Fuel Price Increased") >>
                     ELSE << Insight("growth", "Fuel Price Decreased") >>
                ELSE << >>
        \* the title begins with the name of the first region
        region == IF Len(Get(data, "regional_performance", << >>)) > 1
                  THEN << Insight("growth", "Leading Performance") >>
                  ELSE << >>
        first3 == route \o fuel \o region
        order == IF Len(first3) < 4 /\ "avg_order_value" \in DOMAIN data
                 THEN << Insight("recommendation", "Order Value Optimization") >>
                 ELSE << >>
    IN  first3 \o order

\* get_fallback_insights(business_data); a call that raises leaves the one
\* entry "(raised)".
get_fallback_insights(data) ==
    IF IsRaised(route_rule(data).above) THEN << Insight("(raised)", "ZeroDivisionError") >>
    ELSE SubSeq(padded(rule_insights(data)), 1, 4)

InsightsInit ==
    /\ CoreIdle
    /\ PollIdle
    /\ RequestIdle
    /\ business_data \in BusinessData
    /\ insights = << >>

\* A call of get_fallback_insights(business_data); insights is empty before it.
GetFallbackInsights ==
    /\ insights = << >>
    /\ insights' = get_fallback_insights(business_data)
    /\ UNCHANGED << business_data, est_vars, fc_vars, calls, poll_vars, req_vars >>

SpecInsights == InsightsInit /\ [][GetFallbackInsights]_vars

\* ------------------------------------------------ the data-processor handler
\* create_response(status_code, body); the CORS headers are the same in all.
create_response(status_code, content) == [statusCode |-> status_code, body |-> content]

\* An exception raised, as a value.
Exception(name) == [raised |-> name]
IsException(v) == "raised" \in DOMAIN v

\* event['body'] as API Gateway passes it is None, an empty string, a text
\* that is no JSON, or the JSON text of a dictionary: a record with its kind.

\* json.loads(text)
json_loads(text) == IF text.kind = "json" THEN text.value ELSE Exception("JSONDecodeError")

\* The texts of a custom query.
QueryTexts ==
    { "Show revenue by region",
      "What if Fuel Price INCREASES by 10%?",
      "Open a new warehouse in Toronto",
      "Demand increase of 20% in the East",
      "Any news on the fuel price?" }

\* The phrases process_custom_query looks for that query.lower() contains.
query_lower(query) ==
    CASE query = "What if Fuel Price INCREASES by 10%?" -> { "fuel price", "increase" }
      [] query = "Open a new warehouse in Toronto" -> { "warehouse", "new" }
      [] query = "Demand increase of 20% in the East" -> { "demand", "increase" }
      [] query = "Any news on the fuel price?" -> { "fuel price", "new" }
      [] OTHER -> {}

\* simulate_fuel_price_increase(query), simulate_new_warehouse(query),
\* simulate_demand_increase(query): the module defines none of them, so the
\* call raises NameError.
simulate_query(name, query) == Exception("NameError")

\* process_custom_query(query)
process_custom_query(query) ==
    IF "fuel price" \in query_lower(query) /\ "increase" \in query_lower(query)
    THEN simulate_query("simulate_fuel_price_increase", query)
    ELSE IF "warehouse" \in query_lower(query) /\ "new" \in query_lower(query)
    THEN simulate_query("simulate_new_warehouse", query)
    ELSE IF "demand" \in query_lower(query) /\ "increase" \in query_lower(query)
    THEN simulate_query("simulate_demand_increase", query)
    ELSE [message |-> "Query processed", query |-> query, status |-> "success"]

\* What execute_athena_query does for one query: it returns the result of
\* the query or raises. data is what the caller reads from the rows.
Succeeded(data) == [ok |-> TRUE, data |-> data]
Failed == [ok |-> FALSE, data |-> << >>]

\* What the one query of a simulation may do: fail, or return the rows that
\* fetch_logistics_data_for_ml and fetch_sales_data_for_ml read (none, some,
\* or very large amounts).
SimulationOutcomes(simulation_type) ==
    { Failed } \cup
    { Succeeded(rows) : rows \in
        IF simulation_type = "fuel_price"
        THEN { << >>, RisingCosts,
               << [fuel_used_l |-> Huge(1), fuel_price_per_l |-> One],
                  [fuel_used_l |-> Huge(2), fuel_price_per_l |-> One] >> }
        ELSE IF simulation_type = "demand_forecast"
        THEN { << >>,
               << [revenue |-> Int2F(1)], [revenue |-> Int2F(2)], [revenue |-> Int2F(4)] >>,
               << [revenue |-> Huge(1)], [revenue |-> Huge(2)] >> }
        ELSE { << >> } }

\* fetch_logistics_data_for_ml(), fetch_sales_data_for_ml(): [] on any error.
fetch_data_for_ml(outcome) == IF outcome.ok THEN outcome.data ELSE << >>

\* simulate_fuel_price_impact, simulate_demand_forecast,
\* simulate_warehouse_expansion, simulate_route_optimization: one aggregate
\* query inside try/except; the figures of the scenario are left out.
simulate_plain(name, outcome) ==
    IF outcome.ok THEN [scenario |-> name, ml_enhanced |-> FALSE]
    ELSE [error |-> "Could not process", scenario |-> name, ml_enhanced |-> FALSE]

\* predict_fuel_price_with_ml(parameters, logistics_data) and
\* predict_demand_with_ml(parameters, sales_data) as the handler sees them: the
\* scenario of the forecast returned, or the exception raised. The figures
\* are those of the two functions above.
predict_with_ml(simulation_type, rows) ==
    LET fuel == simulation_type = "fuel_price"
        scenario_of(hist) ==
            IF Len(hist) < 2
            THEN [scenario |-> IF fuel THEN "Fuel Price Increase (Insufficient Data for ML)"
                               ELSE "Demand Forecast (Insufficient Data for ML)"]
            ELSE IF FitRaises(hist) THEN Raised
            ELSE [scenario |-> IF fuel THEN "ML-Enhanced Fuel Price Prediction"
                               ELSE "ML-Enhanced Demand Forecast"]
    IN  scenario_of(IF fuel THEN historical_costs(rows) ELSE historical_revenue(rows))

\* Mutant of use_ml_of: ML_ENABLED is not consulted.
use_ml_ignoring_import(params, ml_enabled) == Get(params, "use_ml_predictions", TRUE)

\* use_ml = parameters.get('use_ml_predictions', True) and ML_ENABLED
use_ml_of(params, ml_enabled) == Get(params, "use_ml_predictions", TRUE) /\ ml_enabled

\* run_simulation(simulation_type, parameters): the function it hands the
\* simulation to, the queries it starts, and what it returns.
run_simulation(simulation_type, params, ml_enabled, outcome) ==
    LET use_ml == use_ml_of(params, ml_enabled)
        plain(name) == [path |-> name, started |-> << outcome >>,
                        returns |-> simulate_plain(name, outcome)]
        ml(name) == [path |-> name, started |-> << outcome >>,
                     returns |-> predict_with_ml(simulation_type, fetch_data_for_ml(outcome))]
    IN  IF simulation_type = "fuel_price"
        THEN IF use_ml THEN ml("predict_fuel_price_with_ml")
             ELSE plain("simulate_fuel_price_impact")
        ELSE IF simulation_type = "demand_forecast"
        THEN IF use_ml THEN ml("predict_demand_with_ml")
             ELSE plain("simulate_demand_forecast")
        ELSE IF simulation_type = "warehouse_expansion"
        THEN plain("simulate_warehouse_expansion")
        ELSE IF simulation_type = "route_optimization"
        THEN plain("simulate_route_optimization")
        ELSE [path |-> "none", started |-> << >>,
              returns |-> [error |-> "Invalid simulation type"]]

\* handle_post_request(body): the response (or the exception that leaves it)
\* and the queries started.
handle_post_request(payload, ml_enabled, outcome) ==
    LET query == Get(payload, "query", "")
        simulation_type == Get(payload, "type", "")
        params == Get(payload, "parameters", EmptyDict)
        answer == process_custom_query(query)
        simulated(run) ==
            [started |-> run.started,
             returns |-> IF run.returns = Raised THEN Exception("OverflowError")
                         ELSE create_response(200, [simulationType |-> simulation_type,
                                                    parameters |-> params,
                                                    result |-> run.returns])]
    IN  IF simulation_type # ""
        THEN simulated(run_simulation(simulation_type, params, ml_enabled, outcome))
        ELSE IF query # ""
        THEN [started |-> << >>,
              returns |-> IF IsException(answer) THEN answer
                          ELSE create_response(200, [query |-> query, result |-> answer])]
        ELSE [started |-> << >>,
              returns |-> create_response(400, [error |-> "Query or simulation type is required"])]


\* get_overview_data(): four queries, each in its own try/except.
get_overview_data(outcomes) ==
    [started |-> SubSeq(outcomes, 1, 4),
     returns |-> create_response(200, [overview |-> "figures"])]

\* get_trend_data(days): three queries in a row, none of them guarded.
get_trend_data(outcomes) ==
    LET failing == { i \in 1..3 : ~outcomes[i].ok }
        first == CHOOSE i \in failing : \A j \in failing : i <= j
    IN  IF failing = {}
        THEN [started |-> SubSeq(outcomes, 1, 3),
              returns |-> create_response(200, [trends |-> "figures"])]
        ELSE [started |-> SubSeq(outcomes, 1, first), returns |-> Exception("Query failed")]

\* get_cost_analysis(days): one query; its own except answers 500.
get_cost_analysis(outcomes) ==
    [started |-> SubSeq(outcomes, 1, 1),
     returns |-> IF outcomes[1].ok THEN create_response(200, [cost_analysis |-> "figures"])
                 ELSE create_response(500, [error |-> "Query failed"])]

\* get_product_performance(days), get_regional_performance(days): one query;
\* an empty list on any error.
get_performance(name, outcomes) ==
    [started |-> SubSeq(outcomes, 1, 1),
     returns |-> create_response(200, IF outcomes[1].ok THEN (name :> "figures")
                                      ELSE (name :> << >>))]

\* The dispatch of handle_get_request on query_type (analytics-kpis apart).
get_data(query_type, outcomes) ==
    LET inner == IF query_type = "overview" THEN get_overview_data(outcomes)
                 ELSE IF query_type = "trends" THEN get_trend_data(outcomes)
                 ELSE IF query_type \in { "costs", "cost-analysis" }
                 THEN get_cost_analysis(outcomes)
                 ELSE IF query_type = "product-performance"
                 THEN get_performance("products", outcomes)
                 ELSE IF query_type = "regional-performance"
                 THEN get_performance("regions", outcomes)
                 ELSE [started |-> << >>,
                       returns |-> create_response(400, [error |-> "Invalid query type",
                                                         available_types |-> "..."])]
    IN  IF IsException(inner.returns)
        THEN [started |-> inner.started,
              returns |-> create_response(500, [error |-> inner.returns.raised,
                                                query_type |-> query_type])]
        ELSE inner

\* The keys the k-th block of get_analytics_kpis adds to results.
kpi_keys(k) ==
    IF k = 1 THEN { "revenue_growth" }
    ELSE IF k = 2 THEN { "avg_order_value", "order_volume" }
    ELSE { "delivery_time" }
AllKpis == [k \in { "revenue_growth", "avg_order_value", "order_volume", "delivery_time" }
              |-> Zero]

\* Mutant of results_on_error: the figures already computed are kept.
results_keeping_computed(found) == found @@ AllKpis

\* except Exception: results = {'revenue_growth': 0, 'avg_order_value': 0,
\* 'order_volume': 0, 'delivery_time': 0}
results_on_error(found) == AllKpis

\* event['body']: None, '', a text that is no JSON, or the JSON text of a
\* dictionary that holds a query, a simulation type with or without
\* parameters, or neither.
Bodies ==
    { [kind |-> "None"], [kind |-> "empty"], [kind |-> "malformed"] }
    \cup { [kind |-> "json", value |-> d] :
             d \in { EmptyDict, [type |-> "fuel_price"], [query |-> "", type |-> ""] }
                   \cup { [query |-> q] : q \in QueryTexts }
                   \cup { [type |-> t, parameters |-> p] :
                            t \in { "fuel_price", "demand_forecast", "warehouse_expansion",
                                    "route_optimization", "inventory" },
                            p \in { EmptyDict, [use_ml_predictions |-> TRUE],
                                    [use_ml_predictions |-> FALSE] } } }
\* The events: any of the keys httpMethod, body and queryStringParameters,
\* the last with a type, known or not, and a days text.
Events ==
    { [k \in keys |-> chosen[k]] :
        keys \in SUBSET { "httpMethod", "body", "queryStringParameters" },
        chosen \in [httpMethod : { "OPTIONS", "GET", "POST", "DELETE" }, body : Bodies,
                    queryStringParameters :
                        { EmptyDict, [days |-> "7"] }
                        \cup { [type |-> t] :
                                 t \in { "overview", "trends", "costs", "cost-analysis",
                                         "analytics-kpis", "product-performance",
                                         "regional-performance", "forecast" } }
                        \cup { [type |-> t, days |-> d] :
                                 t \in { "trends", "analytics-kpis" },
                                 d \in { "7", "week" } }] }

HandlerInit ==
    /\ CoreIdle
    /\ PollIdle
    /\ InsightsIdle
    /\ lambda_fn = "data-processor"
    /\ event \in Events
    /\ at = "handler"
    /\ body = EmptyDict
    /\ ML_ENABLED \in BOOLEAN
    /\ outbound = << >>
    /\ results = EmptyDict
    /\ response = NoResponse

\* handler(event, context) up to the dispatch on the method: lines 40-52,
\* with the except of lines 54-56 for json.loads.
Handler ==
    /\ lambda_fn = "data-processor"
    /\ at = "handler"
    /\ LET method == Get(event, "httpMethod", "GET")
           text == Get(event, "body", [kind |-> "None"])
           parsed == IF text.kind \in { "None", "empty" } THEN EmptyDict ELSE json_loads(text)
       IN  IF IsException(parsed)
           THEN /\ response' = create_response(500, [error |-> parsed.raised])
                /\ at' = "returned"
                /\ body' = body
           ELSE /\ body' = parsed
                /\ IF method = "OPTIONS"
                   THEN response' = create_response(200, EmptyDict) /\ at' = "returned"
                   ELSE IF method = "GET"
                   THEN response' = response /\ at' = "handle_get_request"
                   ELSE IF method = "POST"
                   THEN response' = response /\ at' = "handle_post_request"
                   ELSE /\ response' = create_response(405, [error |-> "Method not allowed"])
                        /\ at' = "returned"
    /\ UNCHANGED << lambda_fn, event, ML_ENABLED, outbound, results >>
    /\ UNCHANGED << est_vars, fc_vars, calls, poll_vars, ins_vars >>

\* handle_get_request(event): lines 60-86; int() of a days text that is no
\* number raises ValueError before the inner try, which handler answers 500.
HandleGetRequest ==
    /\ at = "handle_get_request"
    /\ LET query_params == Get(event, "queryStringParameters", EmptyDict)
           query_type == Get(query_params, "type", "overview")
       IN  IF Get(query_params, "days", "30") = "week"
           THEN /\ response' = create_response(500, [error |-> "ValueError"])
                /\ at' = "returned"
                /\ outbound' = outbound
           ELSE IF query_type = "analytics-kpis"
           THEN /\ response' = response
                /\ at' = "get_analytics_kpis"
                /\ outbound' = outbound
           ELSE \E outcomes \in [1..4 -> { Failed, Succeeded(<< >>) }] :
                   /\ response' = get_data(query_type, outcomes).returns
                   /\ outbound' = outbound \o get_data(query_type, outcomes).started
                   /\ at' = "returned"
    /\ UNCHANGED << lambda_fn, event, body, ML_ENABLED, results >>
    /\ UNCHANGED << est_vars, fc_vars, calls, poll_vars, ins_vars >>

\* One of the three blocks of get_analytics_kpis (lines 675-710, 712-744,
\* 746-769): its query, and the figures read from the rows; any exception
\* ends in the except of lines 771-780.
KpiQuery ==
    /\ at = "get_analytics_kpis"
    /\ \E k \in 1..3 :
          /\ k = Len(outbound) + 1
          /\ \E outcome \in { Failed, Succeeded(Zero), Succeeded(Int2F(5)) } :
                /\ outbound' = Append(outbound, outcome)
                /\ IF outcome.ok
                   THEN /\ results' = results @@ [key \in kpi_keys(k) |-> outcome.data]
                        /\ at' = IF k = 3 THEN "kpis_return" ELSE at
                   ELSE /\ results' = results_on_error(results)
                        /\ at' = "kpis_return"
    /\ UNCHANGED << lambda_fn, event, body, ML_ENABLED, response >>
    /\ UNCHANGED << est_vars, fc_vars, calls, poll_vars, ins_vars >>

\* return create_response(200, results)
KpiReturn ==
    /\ at = "kpis_return"
    /\ response' = create_response(200, results)
    /\ at' = "returned"
    /\ UNCHANGED << lambda_fn, event, body, ML_ENABLED, outbound, results >>
    /\ UNCHANGED << est_vars, fc_vars, calls, poll_vars, ins_vars >>

\* handle_post_request(body): lines 90-110, with the except of lines 54-56.
HandlePostRequest ==
    /\ at = "handle_post_request"
    /\ \E outcome \in SimulationOutcomes(Get(body, "type", "")) :
          \E post \in { handle_post_request(body, ML_ENABLED, outcome) } :
              /\ outbound' = outbound \o post.started
              /\ response' = IF IsException(post.returns)
                             THEN create_response(500, [error |-> post.returns.raised])
                             ELSE post.returns
    /\ at' = "returned"
    /\ UNCHANGED << lambda_fn, event, body, ML_ENABLED, results >>
    /\ UNCHANGED << est_vars, fc_vars, calls, poll_vars, ins_vars >>

HandlerNext == Handler \/ HandleGetRequest \/ KpiQuery \/ KpiReturn \/ HandlePostRequest

SpecHandler == HandlerInit /\ [][HandlerNext]_vars

\* ------------------------------------------------ the chat handlers
ChatHandlers == { "airia-chat", "bedrock", "gemini-chat" }

\* What requests.post and the reading of its response may do: a status with
\* a payload that holds a text, holds none, or is no JSON; a timeout; a
\* connection error.
UpstreamOutcomes ==
    { [kind |-> "response", status_code |-> c, payload |-> p] :
        c \in { 200, 500, 429, 401, 403, 404 }, p \in { "text", "no text", "no JSON" } }
    \cup { [kind |-> "Timeout"], [kind |-> "ConnectionError"] }

\* call_airia_api(message), call_airia_chat(message): the text of the
\* upstream answer, or the fallback string of the branch taken (shortened; the
\* two files word some of them differently).
call_airia(reply) ==
    IF reply.kind = "Timeout" THEN "Your request took more than 90 seconds."
    ELSE IF reply.kind = "ConnectionError" THEN "Unable to connect."
    ELSE IF reply.status_code = 200
    THEN IF reply.payload = "text" THEN "(upstream text)"
         ELSE IF reply.payload = "no text"
         THEN "I received a response but couldn't extract the content."
         ELSE "An unexpected error occurred."
    ELSE IF reply.status_code = 500 THEN "The AI service encountered an internal error."
    ELSE IF reply.status_code = 429 THEN "Too many requests."
    ELSE IF reply.status_code \in { 401, 403 } THEN "Authentication error with the AI service."
    ELSE "AI service error (code)."

\* call_gemini(message)
call_gemini(reply) ==
    IF reply.kind \in { "Timeout", "ConnectionError" }
    THEN "I encountered an error while processing your request."
    ELSE IF reply.status_code = 200
    THEN IF reply.payload = "text" THEN "(upstream text)"
         ELSE IF reply.payload = "no text"
         THEN "I received your message but couldn't generate a proper response."
         ELSE "I encountered an error while processing your request."
    ELSE "I'm having trouble connecting to the AI service."

\* A chat request: an event with any of the keys httpMethod and body.
ChatInit ==
    /\ CoreIdle
    /\ PollIdle
    /\ InsightsIdle
    /\ lambda_fn \in ChatHandlers
    /\ event \in
         { [k \in keys |-> chosen[k]] :
             keys \in SUBSET { "httpMethod", "body" },
             chosen \in [httpMethod : { "OPTIONS", "POST" },
                         body : { [kind |-> "None"], [kind |-> "empty"], [kind |-> "malformed"] }
                                \cup { [kind |-> "json", value |-> d] :
                                         d \in { EmptyDict, [message |-> ""],
                                                 [message |-> "hello"],
                                                 [message |-> "show revenue"] } }] }
    /\ at = "handler"
    /\ body = EmptyDict
    /\ ML_ENABLED = FALSE
    /\ outbound = << >>
    /\ results = EmptyDict
    /\ response = NoResponse

\* handler(event, context) up to the message test. json.loads gets '{}' only
\* when the event has no 'body' key; None and '' make it raise.
ChatHandler ==
    /\ lambda_fn \in ChatHandlers
    /\ at = "handler"
    /\ LET parsed == IF "body" \in DOMAIN event
                     THEN IF event.body.kind = "None" THEN Exception("TypeError")
                          ELSE json_loads(event.body)
                     ELSE EmptyDict
       IN  IF "httpMethod" \in DOMAIN event /\ event.httpMethod = "OPTIONS"
           THEN /\ response' = create_response(200, EmptyDict)
                /\ at' = "returned"
                /\ body' = body
           ELSE IF IsException(parsed)
           THEN /\ response' = create_response(500, [error |-> parsed.raised,
                                                     response |-> "Sorry, I encountered an error."])
                /\ at' = "returned"
                /\ body' = body
           ELSE IF Get(parsed, "message", "") = ""
           THEN /\ response' = create_response(400, [error |-> "Message is required"])
                /\ at' = "returned"
                /\ body' = parsed
           ELSE /\ response' = response
                /\ at' = "call"
                /\ body' = parsed
    /\ UNCHANGED << lambda_fn, event, ML_ENABLED, outbound, results >>
    /\ UNCHANGED << est_vars, fc_vars, calls, poll_vars, ins_vars >>

\* The call of the upstream API and the answer: one requests.post, whose
\* every outcome ends in a string, then create_response(200, ...).
CallUpstream ==
    /\ lambda_fn \in ChatHandlers
    /\ at = "call"
    /\ \E reply \in UpstreamOutcomes :
          /\ outbound' = Append(outbound, reply)
          /\ response' = create_response(200,
                [response |-> IF lambda_fn = "gemini-chat" THEN call_gemini(reply)
                              ELSE call_airia(reply)])
    /\ at' = "returned"
    /\ UNCHANGED << lambda_fn, event, body, ML_ENABLED, results >>
    /\ UNCHANGED << est_vars, fc_vars, calls, poll_vars, ins_vars >>

ChatNext == ChatHandler \/ CallUpstream

SpecChat == ChatInit /\ [][ChatNext]_vars

\* ------------------------------------------------ claims: the estimator
FiniteValues(s) == SelectSeq(s, IsFinite)
\* The first finite value of s, or 0 when it has none.
FirstFiniteOrZero(s) == IF Len(FiniteValues(s)) > 0 THEN FiniteValues(s)[1] ELSE Zero
\* s is the series a*i + b, i = 0..Len(s)-1.
IsLinear(s, a, b) == \A i \in 1..Len(s) : s[i] = Int2F(a * (i - 1) + b)
Slopes == (-2 * MaxVal)..(2 * MaxVal)
Offsets == (-MaxVal)..MaxVal

C3_RSquaredInUnitInterval ==
    trend_line # 0 =>
        /\ IsFinite(trend.r_squared)
        /\ RLe(Zero, trend.r_squared)
        /\ RLe(trend.r_squared, One)

C3_Witness ==
    /\ trend_line = 64
    /\ RLt(Zero, trend.r_squared)
    /\ RLt(trend.r_squared, One)

\* C4 as claimed: a series with fewer than 2 finite values, whatever its
\* length, yields slope = 0, r_squared = 0 and intercept = the first finite
\* value, or 0 when there is none.
C4_Original ==
    (trend_line # 0 /\ Len(FiniteValues(data_series)) < 2) =>
        trend = [slope |-> Zero, intercept |-> FirstFiniteOrZero(data_series),
                 r_squared |-> Zero]

\* C4, amended: a series with fewer than 2 finite values yields slope = 0,
\* r_squared = 0 and nothing raised; the intercept is the first finite value,
\* or 0 when there is none, except that a series of one element yields that
\* element as it is, finite or not.
C4_FewFiniteValues ==
    (trend_line # 0 /\ Len(FiniteValues(data_series)) < 2) =>
        /\ trend.slope = Zero
        /\ trend.r_squared = Zero
        /\ ~IsRaised(trend.intercept)
        /\ trend.intercept = IF Len(data_series) = 1 THEN data_series[1]
                             ELSE FirstFiniteOrZero(data_series)
        /\ trend_line \in {27, 36}

C4_Witness ==
    /\ trend_line = 36
    /\ Len(FiniteValues(data_series)) = 1
    /\ ~IsFinite(data_series[1])
    /\ trend.intercept # Zero

\* C5: when at least 2 finite points remain after filtering, the denominator
\* n*Sxx - Sx^2 over the retained indices is > 0 and the denominator == 0
\* return is never taken.
C5_DenominatorPositive ==
    /\ trend_line # 50
    /\ (trend_line # 0 /\ Len(FiniteValues(data_series)) >= 2) =>
        LET vp == valid_pairs(x_indices(Len(data_series)), data_series)
            x == [i \in 1..Len(vp) |-> vp[i][1]]
        IN  /\ denominator(Len(x), SumInts(x), SumInts([i \in 1..Len(x) |-> x[i] * x[i]])) > 0
            /\ trend_line = 64

C5_Witness ==
    /\ trend_line = 64
    /\ Len(data_series) = 3
    /\ ~IsFinite(data_series[2])

\* C6: a series with fewer than 3 finite values, or whose finite values have
\* mean zero, yields has_seasonality = false, variation = 0 and factor = 1.0,
\* and nothing is raised.
C6_SeasonalityDefaults ==
    (/\ seasonality_line # 0
     /\ \/ Len(FiniteValues(data_series)) < 3
        \/ SumSeq(FiniteValues(data_series)) = Zero)
        => /\ seasonality = [has_seasonality |-> FALSE, variation |-> Zero, factor |-> One]
           /\ seasonality_line \in {76, 81, 85}

C6_Witness ==
    /\ seasonality_line = 85
    /\ Len(FiniteValues(data_series)) = 3
    /\ \E i \in 1..3 : data_series[i] # Zero

\* The Bessel-corrected variance of the finite values of s (n >= 2 of them).
BesselVariance(s) ==
    LET d == FiniteValues(s)
        mean == RDiv(SumSeq(d), Int2F(Len(d)))
    IN  RDiv(SumSeq([i \in 1..Len(d) |-> RSq(RSub(d[i], mean))]), Int2F(Len(d) - 1))
\* v is sqrt(a) to the precision of sqrt: the least multiple of 1/20 with v*v >= a.
IsSqrtOf(v, a) ==
    /\ RGe(v, Zero)
    /\ RGe(RSq(v), a)
    /\ v = Zero \/ RLt(RSq(RSub(v, Rat(1, 20))), a)

Horizon == Get(parameters, "time_horizon_months", 12)
\* b has exactly h entries, entry t labelled 'Month t'.
HasMonthEntries(b, h) ==
    /\ Len(b) = h
    /\ \A t \in 1..h : b[t].month = month_label(t)
InsufficientData == Len(historical) < 2

\* C8: every call of predict_fuel_price_with_ml or predict_demand_with_ml with
\* horizon h >= 1 returns, on the modelled path and on the insufficient-data
\* path alike, a monthly_breakdown of exactly h entries, entry t labelled
\* 'Month t'.
C8_BreakdownHasHorizonEntries ==
    pc = "returned" => HasMonthEntries(result.monthly_breakdown, Horizon)

\* What holds of the code in place of C8: the breakdown has the h labelled
\* entries on every path but the insufficient-data path of
\* predict_demand_with_ml, where it is empty.
BreakdownEntriesByPath ==
    pc = "returned" =>
        IF variant = "demand" /\ InsufficientData
        THEN result.monthly_breakdown = << >>
        ELSE HasMonthEntries(result.monthly_breakdown, Horizon)

\* C9: every monthly_breakdown entry of predict_fuel_price_with_ml has
\* pessimistic_scenario >= monthly_cost_increase >= optimistic_scenario >= 0.
C9_BandOrdered ==
    variant = "fuel" =>
        \A t \in 1..Len(monthly_breakdown) :
            LET e == monthly_breakdown[t]
            IN  /\ RGe(e.pessimistic_scenario, e.monthly_cost_increase)
                /\ RGe(e.monthly_cost_increase, e.optimistic_scenario)
                /\ RGe(e.optimistic_scenario, Zero)

\* What holds of the code in place of C9: the band is ordered in the months
\* whose predicted impact is >= 0; a negative predicted impact has optimistic
\* = 0 above it and pessimistic below it.
BandOrderedBySign ==
    variant = "fuel" =>
        \A t \in 1..Len(monthly_breakdown) :
            LET e == monthly_breakdown[t]
            IN  IF RGe(impacts[t], Zero)
                THEN /\ RGe(e.pessimistic_scenario, e.monthly_cost_increase)
                     /\ RGe(e.monthly_cost_increase, e.optimistic_scenario)
                     /\ RGe(e.optimistic_scenario, Zero)
                ELSE /\ RLe(e.pessimistic_scenario, e.monthly_cost_increase)
                     /\ RLe(e.monthly_cost_increase, e.optimistic_scenario)
                     /\ e.optimistic_scenario = Zero

\* C10: in predict_fuel_price_with_ml the cumulative figure of entry t is the
\* sum of the per-period impacts of periods 1..t (rounded only when stored in
\* the entry), and total_cost_impact is the cumulative figure of the last
\* period, negative impacts included; on the insufficient-data path entry t
\* holds t times the flat impact and the total is h times it.
C10_CumulativeIsRunningSum ==
    variant = "fuel" =>
        /\ Len(impacts) = Len(monthly_breakdown)
        /\ \A t \in 1..Len(monthly_breakdown) :
              /\ monthly_breakdown[t].monthly_cost_increase = round2(impacts[t])
              /\ monthly_breakdown[t].cumulative_cost_increase
                    = round2(SumSeq(SubSeq(impacts, 1, t)))
        /\ cumulative_cost = SumSeq(impacts)
        /\ total = cumulative_cost
        /\ (pc = "returned" /\ ~InsufficientData) =>
              /\ Len(impacts) = Horizon
              /\ result.monthly_breakdown = monthly_breakdown
              /\ result.total_cost_impact = SumSeq(impacts)
        /\ (pc = "returned" /\ InsufficientData) =>
              /\ Len(result.monthly_breakdown) = Horizon
              /\ \A t \in 1..Horizon :
                    /\ result.monthly_breakdown[t].monthly_cost_increase
                          = round2(result.projected_cost_increase)
                    /\ result.monthly_breakdown[t].cumulative_cost_increase
                          = round2(RMul(Int2F(t), result.projected_cost_increase))
              /\ result.total_cost_impact
                    = RMul(Int2F(Horizon), result.projected_cost_increase)

C10_Witness ==
    /\ variant = "fuel"
    /\ pc = "returned"
    /\ Len(impacts) >= 2
    /\ \E t \in 1..Len(impacts) : RLt(impacts[t], Zero)
    /\ \E t \in 1..Len(impacts) : RGt(impacts[t], Zero)
    /\ result.total_cost_impact # Zero

\* -------------------------------- claims: the insufficient-data path
FuelPercent == Get(parameters, "fuel_increase_percent", 10)
FuelRatio == Percent(Get(parameters, "fuel_cost_ratio", 30))
DemandPercent == Get(parameters, "demand_increase_percent", 15)
IsPositive(a) == RGt(a, Zero)
\* The positive costs of the records, in input order.
PositiveCosts ==
    SelectSeq([i \in 1..Len(records) |->
                  RMul(Get(records[i], "fuel_used_l", Zero),
                       Get(records[i], "fuel_price_per_l", Zero))],
              IsPositive)
\* The positive revenues of the records, in input order.
PositiveRevenues ==
    SelectSeq([i \in 1..Len(records) |-> Get(records[i], "revenue", Zero)], IsPositive)
\* The mean of s, or default when s is empty.
MeanOr(s, default) == IF s = << >> THEN Int2F(default) ELSE RDiv(SumSeq(s), Int2F(Len(s)))
\* mean(valid costs, or 1000) * input records * fuel_cost_ratio/100 * percent/100
FlatFuelImpact ==
    RMul(RMul(RMul(MeanOr(PositiveCosts, 1000), Int2F(Len(records))), FuelRatio),
         Percent(FuelPercent))
InsufficientNote == "Insufficient historical data for ML predictions"

\* C11: when fewer than 2 records yield a positive fuel cost,
\* predict_fuel_price_with_ml returns the insufficient-data scenario: every
\* breakdown entry carries the same impact, mean(valid costs, or 1000) * number
\* of input records * fuel_cost_ratio/100 * fuel_increase_percent/100 (to 2
\* decimals in the entry), no entry has an optimistic or pessimistic field,
\* and recommendations is the single explanatory note. With 2 or more valid
\* costs the scenario is the modelled one.
C11_InsufficientFuel ==
    (variant = "fuel" /\ pc = "returned") =>
        IF Len(PositiveCosts) < 2
        THEN /\ result.scenario = "Fuel Price Increase (Insufficient Data for ML)"
             /\ result.projected_cost_increase = FlatFuelImpact
             /\ Len(result.monthly_breakdown) = Horizon
             /\ \A t \in 1..Len(result.monthly_breakdown) :
                   LET e == result.monthly_breakdown[t]
                   IN  /\ DOMAIN e = {"month", "monthly_cost_increase",
                                      "cumulative_cost_increase"}
                       /\ e.monthly_cost_increase = round2(FlatFuelImpact)
             /\ result.recommendations = << InsufficientNote >>
        ELSE result.scenario = "ML-Enhanced Fuel Price Prediction"

\* No valid cost among several records: the default of 1000 is the mean.
C11_Witness ==
    /\ variant = "fuel"
    /\ pc = "returned"
    /\ Len(PositiveCosts) = 0
    /\ Len(records) >= 2
    /\ Horizon >= 2
    /\ result.projected_cost_increase = RMul(Int2F(1000 * Len(records)),
                                             RMul(FuelRatio, Percent(FuelPercent)))
    /\ result.projected_cost_increase # Zero

\* C12, as claimed: whenever no input record yields a positive revenue,
\* predict_demand_with_ml returns the insufficient-data scenario with
\* current_monthly_revenue = 0 and a capacity_requirements list of exactly
\* one element.
C12_Original ==
    (variant = "demand" /\ pc = "returned" /\ PositiveRevenues = << >>) =>
        /\ result.scenario = "Demand Forecast (Insufficient Data for ML)"
        /\ result.current_monthly_revenue = Zero
        /\ Len(result.capacity_requirements) = 1

\* C12, amended: whenever no input record yields a positive revenue,
\* predict_demand_with_ml raises nothing and returns the insufficient-data
\* scenario with a capacity_requirements list of exactly one element and
\* current_monthly_revenue = 10000 * the number of input records, which is 0
\* exactly when sales_data itself is empty.
C12_EmptyRevenueSeries ==
    (variant = "demand" /\ pc = "returned" /\ PositiveRevenues = << >>) =>
        /\ result.scenario = "Demand Forecast (Insufficient Data for ML)"
        /\ result.current_monthly_revenue = Int2F(10000 * Len(records))
        /\ (result.current_monthly_revenue = Zero) <=> (records = << >>)
        /\ IsFinite(result.projected_revenue_increase)
        /\ IsFinite(result.total_revenue_increase)
        /\ result.capacity_requirements = << InsufficientNote >>

C12_Witness ==
    /\ variant = "demand"
    /\ pc = "returned"
    /\ PositiveRevenues = << >>
    /\ Len(records) = 2
    /\ result.current_monthly_revenue = Int2F(20000)

\* ------------------------------------------ claims: the modelled path
Modelled == pc \in {"loop", "returned"} /\ ~InsufficientData

\* C13: on the modelled path the base per-period impact is mean(filtered
\* series) * record_count * ratio * pct/100 (fuel) and mean * record_count *
\* pct/100 (demand), record_count being the length of the raw input, the
\* records filtered out of the series included; it is what the result reports
\* as projected_cost_increase / projected_revenue_increase.
C13_BaseImpact ==
    Modelled =>
        IF variant = "fuel"
        THEN /\ base = RMul(RMul(RMul(MeanOr(PositiveCosts, 0), Int2F(Len(records))),
                                 FuelRatio), Percent(FuelPercent))
             /\ pc = "returned" => result.projected_cost_increase = base
        ELSE /\ base = RMul(RMul(MeanOr(PositiveRevenues, 0), Int2F(Len(records))),
                            Percent(DemandPercent))
             /\ pc = "returned" => result.projected_revenue_increase = base

\* Records were filtered out of the series.
C13_Witness ==
    /\ variant = "fuel"
    /\ pc = "returned"
    /\ Len(historical) = 2
    /\ Len(records) = 3
    /\ base # Zero
    /\ result.projected_cost_increase = base

Significant == RGt(trend.r_squared, Rat(3, 10))
\* v with the seasonal adjustment of month t, when seasonality was detected.
WithSeasonality(v, t, weight) ==
    IF seasonality.has_seasonality
    THEN RAdd(v, RMul(RMul(RMul(v, seasonality.variation), sin_month(t)), weight))
    ELSE v
\* The trend adjustment of month t, 0 when the trend is not significant.
FuelTrendAdjustment(t) ==
    IF Significant
    THEN RMul(RMul(RMul(trend.slope, Int2F(t)), FuelRatio), Percent(FuelPercent))
    ELSE Zero
DemandTrendAdjustment(t) == IF Significant THEN RMul(trend.slope, Int2F(t)) ELSE Zero
\* base * t / horizon
Ramp(t) == RMul(base, RDiv(Int2F(t), Int2F(Horizon)))

\* C14: in both forecast variants the trend adjustment is added to period t
\* exactly when r_squared > 0.3: slope * t * ratio * pct/100 in the fuel
\* variant, slope * t in the demand variant, before the seasonal adjustment;
\* when r_squared <= 0.3 the slope has no effect on the value of any period.
C14_TrendAdjustment ==
    Modelled =>
        \A t \in 1..Len(impacts) :
            IF variant = "fuel"
            THEN impacts[t] = WithSeasonality(RAdd(base, FuelTrendAdjustment(t)), t, Rat(1, 2))
            ELSE impacts[t] =
                    RSub(WithSeasonality(RAdd(RAdd(current, Ramp(t)), DemandTrendAdjustment(t)),
                                         t, Rat(3, 10)),
                         current)

\* A trend that is significant, though below the 0.5 of the recommendations,
\* has moved the months of a fuel forecast.
C14_Witness ==
    /\ variant = "fuel"
    /\ pc = "returned"
    /\ ~InsufficientData
    /\ Significant
    /\ RLe(trend.r_squared, Rat(1, 2))
    /\ trend.slope # Zero
    /\ Len(impacts) >= 2
    /\ FuelTrendAdjustment(2) # Zero

\* C15: with no significant trend and no seasonality the fuel variant repeats
\* the base impact in every period, while period t of the demand variant has
\* projected_revenue = current + base * t / horizon and revenue_increase =
\* base * t / horizon (to 2 decimals in the entry), so that the last period
\* reaches current + base = projected_monthly_revenue.
C15_FlatAndRamp ==
    (Modelled /\ ~Significant /\ ~seasonality.has_seasonality) =>
        /\ \A t \in 1..Len(monthly_breakdown) :
              IF variant = "fuel"
              THEN /\ impacts[t] = base
                   /\ monthly_breakdown[t].monthly_cost_increase = round2(base)
              ELSE /\ impacts[t] = Ramp(t)
                   /\ monthly_breakdown[t].projected_revenue = round2(RAdd(current, Ramp(t)))
                   /\ monthly_breakdown[t].revenue_increase = round2(Ramp(t))
        /\ (variant = "demand" /\ pc = "returned") =>
              /\ result.projected_monthly_revenue = RAdd(current, base)
              /\ impacts[Horizon] = base
              /\ result.monthly_breakdown[Horizon].projected_revenue
                    = round2(result.projected_monthly_revenue)

C15_Witness ==
    /\ variant = "demand"
    /\ pc = "returned"
    /\ ~InsufficientData
    /\ ~Significant
    /\ ~seasonality.has_seasonality
    /\ Horizon >= 2
    /\ base # Zero
    /\ impacts[1] # impacts[Horizon]

\* C16: the trend_direction reported by predict_fuel_price_with_ml is 'rising'
\* iff r_squared > 0.3 and slope > 1% of the historical mean, 'falling' iff
\* r_squared > 0.3 and slope < -1% of the historical mean, 'stable' in every
\* other case; a direction other than 'stable' implies trend_detected.
C16_TrendDirection ==
    (variant = "fuel" /\ pc = "returned" /\ ~InsufficientData) =>
        LET direction == result.model_info.trend_direction
            one_percent == RMul(MeanOr(historical, 0), Rat(1, 100))
            rising == Significant /\ RGt(trend.slope, one_percent)
            falling == Significant /\ RLt(trend.slope, RNeg(one_percent))
        IN  /\ (direction = "rising") <=> rising
            /\ (direction = "falling") <=> falling
            /\ (direction = "stable") <=> (~rising /\ ~falling)
            /\ direction # "stable" => result.model_info.trend_detected = TRUE

C16_Witness ==
    /\ variant = "fuel"
    /\ pc = "returned"
    /\ ~InsufficientData
    /\ result.model_info.trend_direction = "falling"
    /\ result.model_info.trend_detected = TRUE

\* The titles of the recommendations of the result.
Titles == { result.recommendations[i].title : i \in 1..Len(result.recommendations) }
FuelModelled == variant = "fuel" /\ pc = "returned" /\ ~InsufficientData

\* C17: every slope-driven recommendation of predict_fuel_price_with_ml (the
\* upward-trend warning and the favourable declining-trend note) is emitted
\* only when the slope is significant: none appears when r_squared <= 0.3.
C17_SlopeNotesNeedSignificance ==
    (FuelModelled /\ ~Significant) =>
        /\ "Upward Cost Trend Detected" \notin Titles
        /\ "Favorable Cost Trend" \notin Titles

\* What holds of the code in place of C17: the upward warning needs slope > 0
\* and r_squared > 0.5; the favourable note appears for every negative slope,
\* whatever r_squared is.
SlopeNotesBySign ==
    FuelModelled =>
        /\ ("Upward Cost Trend Detected" \in Titles)
              <=> (RGt(trend.slope, Zero) /\ RGt(trend.r_squared, Rat(1, 2)))
        /\ ("Favorable Cost Trend" \in Titles) <=> RLt(trend.slope, Zero)

\* C18: on the modelled path of predict_fuel_price_with_ml the recommendations
\* hold exactly one percentage-driven entry, 'High Impact Scenario' iff
\* fuel_increase_percent > 15 and 'Moderate Impact' otherwise (15 itself is
\* moderate); the list is never empty and has at most 3 entries.
C18_ImpactRecommendation ==
    FuelModelled =>
        LET recs == result.recommendations
            by_percent == { i \in 1..Len(recs) :
                              recs[i].title \in {"High Impact Scenario", "Moderate Impact"} }
        IN  /\ Cardinality(by_percent) = 1
            /\ ("High Impact Scenario" \in Titles) <=> (FuelPercent > 15)
            /\ ("Moderate Impact" \in Titles) <=> (FuelPercent <= 15)
            /\ Len(recs) \in 1..3

\* The percentage at the threshold, with a slope entry and a seasonal entry.
C18_Witness ==
    /\ FuelModelled
    /\ FuelPercent = 15
    /\ Len(result.recommendations) = 3
    /\ result.recommendations[3].title = "Moderate Impact"

\* C19: in both forecast variants model_info.confidence equals r_squared * 100
\* rounded to the nearest integer, and is an integer between 0 and 100.
C19_ConfidenceRounded ==
    (pc = "returned" /\ ~InsufficientData) =>
        /\ result.model_info.confidence = HalfEven(trend.r_squared[1] * 100, trend.r_squared[2])
        /\ result.model_info.confidence \in 0..100

\* What holds of the code in place of C19: the confidence is r_squared * 100
\* with its fraction dropped, an integer between 0 and 100.
ConfidenceTruncated ==
    (pc = "returned" /\ ~InsufficientData) =>
        /\ result.model_info.confidence = (trend.r_squared[1] * 100) \div trend.r_squared[2]
        /\ result.model_info.confidence \in 0..100

\* The call of the worked example: 5 records of costs 100, 110, 120, 130, 140,
\* fuel_increase_percent 10, time_horizon_months 3, fuel_cost_ratio 30.
IsRisingCostsCall ==
    /\ variant = "fuel"
    /\ Len(records) = 5
    /\ PositiveCosts = << Int2F(100), Int2F(110), Int2F(120), Int2F(130), Int2F(140) >>
    /\ FuelPercent = 10
    /\ Horizon = 3
    /\ FuelRatio = Rat(30, 100)

\* C20: for 5 records whose fuel costs are 100, 110, 120, 130, 140 with
\* fuel_increase_percent = 10, time_horizon_months = 3 and fuel_cost_ratio =
\* 30, predict_fuel_price_with_ml fits slope 10 and r_squared 1, detects no
\* seasonality, reports a base monthly impact of 18.0 and a Month 1 impact of
\* 18.3.
C20_RisingCostsExample ==
    (IsRisingCostsCall /\ pc = "returned") =>
        /\ result.scenario = "ML-Enhanced Fuel Price Prediction"
        /\ trend.slope = Int2F(10)
        /\ trend.r_squared = One
        /\ ~seasonality.has_seasonality
        /\ result.model_info.seasonality_detected = FALSE
        /\ result.projected_cost_increase = Int2F(18)
        /\ result.monthly_breakdown[1].month = "Month 1"
        /\ result.monthly_breakdown[1].monthly_cost_increase = Rat(183, 10)

C20_Witness ==
    /\ IsRisingCostsCall
    /\ pc = "returned"
    /\ Len(result.monthly_breakdown) = 3
    /\ result.monthly_breakdown[1].monthly_cost_increase = Rat(183, 10)
    /\ result.model_info.data_points = 5

\* ------------------------------------------------- claims: exceptions
\* A number of the call is no value, but an exception.
AnyRaised(values) == \E i \in 1..Len(values) : IsRaised(values[i])

\* C21: for every well-typed input (any number of records including none, any
\* numeric percentage and ratio, horizon >= 1), predict_fuel_price_with_ml and
\* predict_demand_with_ml return a result and never raise: insufficient data,
\* zero variance, zero denominator and zero mean each lead to a defined
\* fallback value.
C21_NeverRaises ==
    /\ pc # "raised"
    /\ ~AnyRaised(<< trend.slope, trend.intercept, trend.r_squared, seasonality.variation,
                    current, base, total >>)

\* What holds of the code in place of C21: an exception leaves the forecasts
\* only for a series that holds an amount beyond 2^600 and is not constant
\* (OverflowError of a square in the fit); every other call returns.
RaisesOnOverflowOnly ==
    /\ pc = "raised" <=>
          /\ Len(historical) >= 2
          /\ \E i \in 1..Len(historical) : Exp(historical[i]) = 1
          /\ \E i \in 1..Len(historical) : historical[i] # historical[1]
    /\ pc # "raised" =>
          ~AnyRaised(<< trend.slope, trend.intercept, trend.r_squared, seasonality.variation,
                       current, base, total >>)

\* A call that returned holds what the function yields on its arguments.
ResultIsFunctionOfArguments ==
    pc = "returned" =>
        result = IF variant = "fuel" THEN predict_fuel_price_with_ml(parameters, records)
                 ELSE predict_demand_with_ml(parameters, records)

\* ----------------------------------------------- claims: concurrency
\* What invocation i returns when it runs alone on its arguments.
AloneResult(i) ==
    IF calls[i].arguments.variant = "fuel"
    THEN predict_fuel_price_with_ml(calls[i].arguments.parameters, calls[i].arguments.records)
    ELSE predict_demand_with_ml(calls[i].arguments.parameters, calls[i].arguments.records)

\* C22: the estimator functions share no mutable state: in any interleaving
\* of concurrent invocations, each invocation leaves its own parameters and
\* records unmodified and returns the same result it would return if run
\* alone on the same input.
C22_NoSharedState ==
    \A i \in DOMAIN calls :
        /\ calls[i].parameters = calls[i].arguments.parameters
        /\ calls[i].records = calls[i].arguments.records
        /\ calls[i].pc = "returned" => calls[i].result = AloneResult(i)

\* Two calls on different arguments have both run their loops and returned.
C22_Witness ==
    /\ DOMAIN calls = Invocations
    /\ \A i \in Invocations :
          /\ calls[i].pc = "returned"
          /\ Len(calls[i].historical) >= 2
          /\ Len(calls[i].result.monthly_breakdown) >= 1
    /\ calls[1].variant = "fuel"
    /\ calls[2].variant = "demand"
    /\ calls[1].result # calls[2].result

\* ----------------------------------------------- claims: polling Athena
Terminal(state) == state \in { "SUCCEEDED", "FAILED", "CANCELLED" }
Finished == poll_pc \in { "returned", "raised" }

\* What execute_athena_query of the data-processor may never do.
PollsUntilTerminalSafely ==
    poller = "data-processor" =>
        /\ fetched > 0 => status = "SUCCEEDED"
        /\ poll_pc \in { "done", "returned", "raised" } => Terminal(status)
        /\ poll_pc = "returned" => status = "SUCCEEDED" /\ fetched = 1
        /\ poll_pc = "raised" => status \in { "FAILED", "CANCELLED" } /\ fetched = 0
        /\ attempt = 0

\* C26: execute_athena_query of the data-processor polls the query state
\* until it reads SUCCEEDED, FAILED or CANCELLED: it fetches no results before
\* it has read SUCCEEDED, it raises on FAILED and on CANCELLED, and it
\* terminates if and only if Athena eventually reports a terminal state, the
\* number of polls being unbounded.
C26_PollsUntilTerminal ==
    /\ []PollsUntilTerminalSafely
    /\ (poller = "data-processor" /\ Terminal(athena_state)) ~> Finished
    /\ (poller = "data-processor" /\ athena_state = "SUCCEEDED") ~> (poll_pc = "returned")
    /\ (poller = "data-processor" /\ athena_state \in { "FAILED", "CANCELLED" })
           ~> (poll_pc = "raised")
    /\ (poller = "data-processor" /\ []~Terminal(athena_state)) => []~Finished

\* The data-processor has polled more than max_attempts times, as often as
\* the model counts, and then returned the results of the query.
C26_Witness ==
    /\ poller = "data-processor"
    /\ polls = MaxPolls
    /\ polls > max_attempts
    /\ poll_pc = "returned"
    /\ fetched = 1

\* What execute_athena_query of gemini-insights may never do.
PollsAtMostMaxAttempts ==
    poller = "gemini-insights" =>
        /\ polls <= max_attempts
        /\ attempt <= max_attempts
        /\ fetched > 0 => status = "SUCCEEDED"
        /\ poll_pc = "returned" => status = "SUCCEEDED" /\ fetched = 1
        /\ poll_pc = "raised" =>
              /\ fetched = 0
              /\ \/ status \in { "FAILED", "CANCELLED" }
                 \/ status \in { "QUEUED", "RUNNING" } /\ polls = max_attempts
        /\ poll_pc = "done" =>
              IF Terminal(status) THEN TRUE ELSE polls = max_attempts

\* C27: execute_athena_query of gemini-insights always terminates, after at
\* most 30 polls of the state: it returns results only if the state it read
\* last is SUCCEEDED, and it raises 'Query failed' when that state is FAILED
\* or CANCELLED or is still not terminal after the 30th poll.
C27_TerminatesWithin30Polls ==
    /\ []PollsAtMostMaxAttempts
    /\ (poller = "gemini-insights") ~> Finished
    /\ (poller = "gemini-insights" /\ poll_pc = "done" /\ status = "SUCCEEDED")
           ~> (poll_pc = "returned")
    /\ (poller = "gemini-insights" /\ poll_pc = "done" /\ status # "SUCCEEDED")
           ~> (poll_pc = "raised")

\* gemini-insights has given up on a query that was still running at the
\* 30th poll.
C27_Witness ==
    /\ poller = "gemini-insights"
    /\ polls = max_attempts
    /\ status = "RUNNING"
    /\ poll_pc = "raised"

\* ----------------------------------------------- claims: fallback insights
Called == insights # << >>
HasRaised == Called /\ insights[1].type = "(raised)"

\* C24: get_fallback_insights returns a list of exactly 4 insights for every
\* business_data mapping, empty, partial or complete, padding with the
\* generic 'Data Analysis Required' entry when fewer rules fire.
C24_AlwaysFourInsights ==
    Called =>
        /\ Len(insights) = 4
        /\ ~HasRaised
        /\ \A i \in 1..4 :
              insights[i] = IF i <= Len(rule_insights(business_data))
                            THEN rule_insights(business_data)[i]
                            ELSE DataAnalysisRequired

\* What holds of the code in place of C24: the call raises exactly when the
\* costs of the top routes average to zero below a positive first cost, and
\* returns four insights, padded with the generic entry, otherwise.
FourInsightsUnlessZeroAverage ==
    LET routes == Get(business_data, "top_cost_routes", << >>)
        zero_average == /\ Len(routes) > 0
                        /\ SumSeq(routes) = Zero
                        /\ RGt(routes[1], Zero)
    IN  Called =>
          IF zero_average THEN HasRaised
          ELSE /\ Len(insights) = 4
               /\ \A i \in 1..4 :
                     insights[i] = IF i <= Len(rule_insights(business_data))
                                   THEN rule_insights(business_data)[i]
                                   ELSE DataAnalysisRequired

\* ----------------------------------------------- claims: the data-processor handler
Method == Get(event, "httpMethod", "GET")
BodyParses == Get(event, "body", [kind |-> "None"]).kind # "malformed"
Returned == lambda_fn = "data-processor" /\ at = "returned"
\* A POST whose body has no simulation type and a query that is not empty.
IsCustomQuery ==
    /\ Method = "POST"
    /\ BodyParses
    /\ Get(body, "type", "") = ""
    /\ Get(body, "query", "") # ""
SimulatedQuery(query) ==
    \/ { "fuel price", "increase" } \subseteq query_lower(query)
    \/ { "warehouse", "new" } \subseteq query_lower(query)
    \/ { "demand", "increase" } \subseteq query_lower(query)

\* C23: for a POST whose body has no simulation type and a non-empty query,
\* the handler answers with status 200, echoing the query and carrying the
\* result of process_custom_query, for every query text, those that mention
\* 'fuel price' and 'increase', 'warehouse' and 'new', or 'demand' and
\* 'increase' included.
C23_CustomQueryAnswered ==
    (Returned /\ IsCustomQuery) =>
        /\ response.statusCode = 200
        /\ response.body.query = body.query
        /\ response.body.result = process_custom_query(body.query)

\* What holds of the code in place of C23: the texts that name a simulation
\* are answered 500 (NameError), every other text 200 with 'Query processed'.
CustomQueryAnsweredUnlessSimulated ==
    (Returned /\ IsCustomQuery) =>
        IF SimulatedQuery(body.query)
        THEN response = create_response(500, [error |-> "NameError"])
        ELSE response = create_response(200,
                 [query |-> body.query,
                  result |-> [message |-> "Query processed", query |-> body.query,
                              status |-> "success"]])

\* A POST whose body names a simulation type.
IsSimulation == Method = "POST" /\ BodyParses /\ Get(body, "type", "") # ""
\* What the function expected for simulation type t returns, use_ml telling
\* whether the ML path is due: the scenario of the forecast of simple_ml on
\* the rows fetched, or the plain simulation.
ExpectedSimulation(t, params, use_ml) ==
    LET rows == IF Len(outbound) = 1 /\ outbound[1].ok THEN outbound[1].data ELSE << >>
    IN  IF t = "fuel_price"
        THEN IF use_ml THEN [scenario |-> predict_fuel_price_with_ml(params, rows).scenario]
             ELSE simulate_plain("simulate_fuel_price_impact", outbound[1])
        ELSE IF t = "demand_forecast"
        THEN IF use_ml THEN [scenario |-> predict_demand_with_ml(params, rows).scenario]
             ELSE simulate_plain("simulate_demand_forecast", outbound[1])
        ELSE IF t = "warehouse_expansion"
        THEN simulate_plain("simulate_warehouse_expansion", outbound[1])
        ELSE IF t = "route_optimization"
        THEN simulate_plain("simulate_route_optimization", outbound[1])
        ELSE [error |-> "Invalid simulation type"]

\* C25: run_simulation takes the ML path for 'fuel_price' and
\* 'demand_forecast' exactly when the import of simple_ml succeeded
\* (ML_ENABLED) and parameters.use_ml_predictions is absent or true;
\* otherwise it runs the plain simulation on Athena aggregates;
\* 'warehouse_expansion' and 'route_optimization' never use ML, and any other
\* type yields {'error': 'Invalid simulation type'} without starting a query.
C25_MLPathWhenEnabled ==
    (Returned /\ IsSimulation) =>
        LET t == body.type
            params == Get(body, "parameters", EmptyDict)
            use_ml == ML_ENABLED /\ ("use_ml_predictions" \notin DOMAIN params
                                     \/ params.use_ml_predictions = TRUE)
            expected == ExpectedSimulation(t, params, use_ml)
        IN  /\ Len(outbound) = IF t \in { "fuel_price", "demand_forecast",
                                           "warehouse_expansion", "route_optimization" }
                               THEN 1 ELSE 0
            /\ IF expected = Raised THEN response.statusCode = 500
               ELSE /\ response.statusCode = 200
                    /\ response.body.result = expected

\* An ML forecast was returned for a fuel_price simulation on rows fetched
\* from Athena.
C25_Witness ==
    /\ Returned
    /\ IsSimulation
    /\ body.type = "fuel_price"
    /\ ML_ENABLED
    /\ Len(outbound) = 1
    /\ outbound[1] = Succeeded(RisingCosts)
    /\ response.statusCode = 200
    /\ response.body.result.scenario = "ML-Enhanced Fuel Price Prediction"

\* C28: no exception escapes the data-processor handler: every event yields
\* a response whose statusCode is 200, 400, 405 or 500; an OPTIONS request
\* gets 200 and starts no Athena query whatever its body, a method other than
\* GET, POST or OPTIONS gets 405, and any raised exception becomes 500.
C28_NoExceptionEscapes ==
    Returned =>
        /\ response.statusCode \in { 200, 400, 405, 500 }
        /\ Method = "OPTIONS" => response.statusCode = 200 /\ outbound = << >>
        /\ Method \notin { "GET", "POST", "OPTIONS" } => response.statusCode = 405

\* What holds of the code in place of C28: the body is parsed before the
\* method is looked at, so a body that is no JSON is answered 500 whatever
\* the method; with a body that parses, OPTIONS gets 200 and an unknown
\* method 405.
NoExceptionEscapesParsedBody ==
    Returned =>
        /\ response.statusCode \in { 200, 400, 405, 500 }
        /\ ~BodyParses => response = create_response(500, [error |-> "JSONDecodeError"])
                          /\ outbound = << >>
        /\ (BodyParses /\ Method = "OPTIONS") =>
              response = create_response(200, EmptyDict) /\ outbound = << >>
        /\ (BodyParses /\ Method \notin { "GET", "POST", "OPTIONS" }) =>
              response.statusCode = 405 /\ outbound = << >>

\* A GET for the analytics KPIs that reaches get_analytics_kpis.
IsKpiRequest ==
    /\ Method = "GET"
    /\ BodyParses
    /\ Get(Get(event, "queryStringParameters", EmptyDict), "type", "overview")
          = "analytics-kpis"
    /\ Get(Get(event, "queryStringParameters", EmptyDict), "days", "30") # "week"
KpiKeys == { "revenue_growth", "avg_order_value", "order_volume", "delivery_time" }

\* C30: get_analytics_kpis always answers 200 with the four keys
\* revenue_growth, avg_order_value, order_volume and delivery_time; if any of
\* its three Athena queries, run one after another, fails, all four values
\* are 0, those already computed from earlier queries included.
C30_KpisZeroedOnFailure ==
    (Returned /\ IsKpiRequest) =>
        /\ response.statusCode = 200
        /\ DOMAIN response.body = KpiKeys
        /\ Len(outbound) \in 1..3
        /\ IF \E i \in 1..Len(outbound) : ~outbound[i].ok
           THEN \A key \in KpiKeys : response.body[key] = Zero
           ELSE /\ Len(outbound) = 3
                /\ response.body.revenue_growth = outbound[1].data
                /\ response.body.avg_order_value = outbound[2].data
                /\ response.body.order_volume = outbound[2].data
                /\ response.body.delivery_time = outbound[3].data

\* The third query failed after two had produced figures other than 0, and
\* the response reports 0 for all four.
C30_Witness ==
    /\ Returned
    /\ IsKpiRequest
    /\ Len(outbound) = 3
    /\ outbound[1] = Succeeded(Int2F(5))
    /\ outbound[2] = Succeeded(Int2F(5))
    /\ ~outbound[3].ok
    /\ response.statusCode = 200
    /\ response.body.revenue_growth = Zero
    /\ response.body.avg_order_value = Zero

\* ----------------------------------------------- claims: the chat handlers
ChatReturned == lambda_fn \in ChatHandlers /\ at = "returned"
IsPreflight == "httpMethod" \in DOMAIN event /\ event.httpMethod = "OPTIONS"
\* The message of the request: that of its JSON body, if it has one.
RequestMessage ==
    IF "body" \in DOMAIN event /\ event.body.kind = "json"
    THEN Get(event.body.value, "message", "")
    ELSE ""
UpstreamSucceeded(reply) ==
    reply.kind = "response" /\ reply.status_code = 200 /\ reply.payload = "text"

\* C29: in the chat handlers (airia-chat, bedrock, gemini-chat) a request
\* whose message is missing or empty is answered 400 before any upstream API
\* call is made; for a message that is not empty exactly one upstream call is
\* made and the handler answers 200 whatever the outcome of the call
\* (a status other than 200, a timeout, a connection error, a payload that
\* cannot be parsed), carrying a fallback string as the response.
C29_ChatAnswers ==
    (ChatReturned /\ ~IsPreflight) =>
        IF RequestMessage = ""
        THEN response.statusCode = 400 /\ outbound = << >>
        ELSE /\ Len(outbound) = 1
             /\ response.statusCode = 200
             /\ UpstreamSucceeded(outbound[1]) <=> response.body.response = "(upstream text)"

\* What holds of the code in place of C29: a body that json.loads cannot
\* read (None, '', a text that is no JSON) is answered 500 without an
\* upstream call; a missing body key or a JSON body without a message is
\* answered 400; a message that is not empty is answered 200 after one call.
ChatAnswersParsedBody ==
    (ChatReturned /\ ~IsPreflight) =>
        IF "body" \in DOMAIN event /\ event.body.kind # "json"
        THEN response.statusCode = 500 /\ outbound = << >>
        ELSE IF RequestMessage = ""
        THEN response.statusCode = 400 /\ outbound = << >>
        ELSE /\ Len(outbound) = 1
             /\ response.statusCode = 200
             /\ UpstreamSucceeded(outbound[1]) <=> response.body.response = "(upstream text)"
====
